---- MODULE Spec2Model ----
(***************************************************************************)
(* A model of the pull-request reviewer: the diff line validator           *)
(* (services/reviewer/patch_parser.py), the review graph                   *)
(* (services/reviewer/graph.py, services/reviewer/tools.py), the review    *)
(* orchestrator (services/reviewer/service.py, services/github/service.py) *)
(* the parallel review scheduler the orchestrator calls, the repository    *)
(* tools of the review agent (services/reviewer/tools.py), the parser of   *)
(* pull-request references and of the review intent (core/pr_parser.py),   *)
(* the GitHub webhook (services/github/routes.py) and the Slack events     *)
(* endpoint with its review handler (services/slack/routes.py).            *)
(*                                                                         *)
(* Python strings are modelled as sequences of one-character strings, so   *)
(* that splitting, prefix tests and the hunk-header regular expression are *)
(* computed on characters as the code computes them.                       *)
(***************************************************************************)
EXTENDS Integers, Sequences, FiniteSets, Bags, TLC

VARIABLES
    pc,             \* position of the running operation
    \* ---- parse_patch_line_numbers (patch_parser.py:6-51)
    patch,          \* the argument: a string, or PyNone
    lines,          \* patch.split("\n"), once computed
    li,             \* index of the line the for loop is at (1-based)
    current_line,   \* patch_parser.py:24
    valid_lines,    \* patch_parser.py:18
    adds,           \* history: per processed line, the arguments of valid_lines.add
    \* ---- filter_comments_by_valid_lines (patch_parser.py:54-87)
    patches,        \* the argument: dict filename -> patch
    comments,       \* the argument: list of comment dicts
    valid_lines_by_file,    \* patch_parser.py:68
    ci,             \* index of the comment the for loop is at (1-based)
    valid,          \* patch_parser.py:72
    invalid,        \* patch_parser.py:73
    \* ---- review_pull_request (reviewer/service.py:13-100)
    pr_files,       \* what the pull request's file listing holds on GitHub
    files,          \* service.py:23
    reviewable_files,   \* service.py:28-32
    scheduler_calls,    \* history: the file lists review_files_parallel
                        \* was called with (service.py:45)
    all_comments,   \* service.py:45
    overall_summary,    \* service.py:45
    valid_comments, \* service.py:59
    invalid_comments,   \* service.py:59
    submit_calls,   \* the calls of submit_review made, with their arguments
    github_reviews, \* the reviews pr.create_review has created
    submit_returns, \* history: per call of submit_review, whether its
                    \* collaborator calls succeed and what it raised
    notify_calls,   \* the calls of send_review_notification made
    result,         \* what review_pull_request returned or raised
    \* ---- the review graph (reviewer/graph.py:60-262)
    state,          \* the graph's ReviewState (reviewer/state.py:8-31)
    model_calls,    \* history: per invocation of the review model, the index
                    \* of the file under review
    summary_calls,  \* history: the number of invocations of the summary model
    \* ---- the parallel review scheduler (spec.md 4.4; called at
    \* service.py:45)
    tasks,          \* per submitted file, the status of its review task and
                    \* the result it returned
    permits,        \* the free permits of the admission gate
    sched_out,      \* what the scheduler has aggregated and returns
    \* ---- a call of a repository tool (reviewer/tools.py:18-182)
    tool_call,      \* the tool called, its path argument and what the
                    \* repository answers its requests with
    tool_return,    \* what the tool returned or raised
    \* ---- parse_pr_reference (core/pr_parser.py:19-72)
    ref_message,    \* the parts the text is made of
    ref_text,       \* the argument: a string
    ref_settings,   \* settings.default_repo_owner and default_repo_name
    pr_reference,   \* what parse_pr_reference returned
    \* ---- the handlers of incoming messages (core/pr_parser.py:75-86)
    event_message,  \* the words the text of a message is made of
    event_text,     \* the text of the message: a string
    review_intent,  \* what extract_review_intent returned
    \* ---- the HTTP handlers (services/github/routes.py:12-75)
    secrets,        \* settings.github_webhook_secret and
                    \* settings.slack_signing_secret
    request,        \* the request received: its headers and its body
    http_response,  \* the response to the request
    background_tasks,   \* the tasks the handler added, to run after the
                        \* response
    review_runs,    \* history: the background reviews that have run
    \* ---- handle_review_request (services/slack/routes.py:74-127)
    slack_calls     \* history: the calls the handler made, in order

pvars == <<patch, lines, li, current_line, valid_lines, adds>>
fvars == <<patches, comments, valid_lines_by_file, ci, valid, invalid>>
rvars == <<pr_files, files, reviewable_files, scheduler_calls, all_comments,
           overall_summary, valid_comments, invalid_comments, submit_calls,
           github_reviews, submit_returns, notify_calls, result>>
gvars == <<state, model_calls, summary_calls>>
svars == <<tasks, permits, sched_out>>
tvars == <<tool_call, tool_return>>
refvars == <<ref_message, ref_text, ref_settings, pr_reference>>
intentvars == <<event_message, event_text, review_intent>>
webvars == <<secrets, request, http_response, background_tasks,
             review_runs>>
slackvars == <<slack_calls>>
hvars == <<intentvars, webvars, slackvars>>
vars == <<pc, pvars, fvars, rvars, gvars, svars, tvars, refvars, hvars>>

\* what an operation leaves alone: the state of the other operations
notParse  == <<fvars, rvars, gvars, svars, tvars, refvars, hvars>>
notFilter == <<pvars, rvars, gvars, svars, tvars, refvars, hvars>>
notReview == <<pvars, fvars, gvars, svars, tvars, refvars, hvars>>
notGraph  == <<pvars, fvars, rvars, svars, tvars, refvars, hvars>>
notSched  == <<pvars, fvars, rvars, gvars, tvars, refvars, hvars>>
notTools  == <<pvars, fvars, rvars, gvars, svars, refvars, hvars>>
notRef    == <<pvars, fvars, rvars, gvars, svars, tvars, hvars>>
notHandlers == <<pvars, fvars, rvars, gvars, svars, tvars, refvars>>
notSlackReview == <<pvars, fvars, rvars, gvars, svars, tvars, intentvars,
                   webvars>>

(***************************************************************************)
(* Strings                                                                 *)
(***************************************************************************)
\* Python's None, where a string is expected: no string equals it, since
\* every character of a string is a one-character string.
PyNone == <<"None">>

NL == "\n"

DigitChars == <<"0", "1", "2", "3", "4", "5", "6", "7", "8", "9">>

Digit == {DigitChars[i] : i \in DOMAIN DigitChars}

DigitVal(c) == (CHOOSE i \in DOMAIN DigitChars : DigitChars[i] = c) - 1

\* str.startswith
startswith(s, prefix) ==
    /\ Len(s) >= Len(prefix)
    /\ SubSeq(s, 1, Len(prefix)) = prefix

\* the literal p occurs in s at position i
LitAt(s, i, p) ==
    /\ i + Len(p) - 1 <= Len(s)
    /\ SubSeq(s, i, i + Len(p) - 1) = p

\* length of the run of digits of s that starts at position i: \d+ is greedy
RECURSIVE DigitRun(_, _)
DigitRun(s, i) ==
    IF i <= Len(s) /\ s[i] \in Digit THEN 1 + DigitRun(s, i + 1) ELSE 0

\* position after the optional group (?:,\d+)? tried at position i
OptCount(s, i) ==
    IF i <= Len(s) /\ s[i] = "," /\ DigitRun(s, i + 1) > 0
    THEN i + 1 + DigitRun(s, i + 1)
    ELSE i

\* int() of a string of decimal digits
RECURSIVE int(_)
int(ds) ==
    IF ds = <<>> THEN 0
    ELSE 10 * int(SubSeq(ds, 1, Len(ds) - 1)) + DigitVal(ds[Len(ds)])

\* str.split("\n"): always at least one piece
RECURSIVE split(_)
split(s) ==
    IF \E k \in DOMAIN s : s[k] = NL
    THEN LET k == CHOOSE k \in DOMAIN s :
                      s[k] = NL /\ \A j \in 1..(k - 1) : s[j] # NL
         IN  <<SubSeq(s, 1, k - 1)>> \o split(SubSeq(s, k + 1, Len(s)))
    ELSE <<s>>

\* "\n".join(ls)
RECURSIVE join(_)
join(ls) ==
    IF ls = <<>> THEN <<>>
    ELSE IF Len(ls) = 1 THEN ls[1]
    ELSE ls[1] \o <<NL>> \o join(Tail(ls))

(***************************************************************************)
(* parse_patch_line_numbers                                                *)
(***************************************************************************)
\* re.match(r"^@@ -\d+(?:,\d+)? \+(\d+)(?:,\d+)? @@", line): whether it
\* matches, and group(1). No backtracking can change the result: after a
\* shorter \d+ the next character is a digit, which no alternative accepts.
hunk_match(line) ==
    LET a  == 5                         \* after "@@ -"
        d1 == DigitRun(line, a)
        b  == OptCount(line, a + d1)
        c  == b + 2                     \* after " +"
        g  == DigitRun(line, c)
        e  == OptCount(line, c + g)
    IN  IF /\ LitAt(line, 1, <<"@", "@", " ", "-">>)
           /\ d1 > 0
           /\ LitAt(line, b, <<" ", "+">>)
           /\ g > 0
           /\ LitAt(line, e, <<" ", "@", "@">>)
        THEN [ok |-> TRUE, group1 |-> SubSeq(line, c, c + g - 1)]
        ELSE [ok |-> FALSE, group1 |-> <<>>]

\* One iteration of the for loop (patch_parser.py:26-49) on `line`, from
\* current_line = cur: the new current_line, and the set of the arguments of
\* valid_lines.add in this iteration (empty when nothing is added).
MutParseLineContextAdds(cur, line) ==
    LET m == hunk_match(line) IN
    IF m.ok THEN [current_line |-> int(m.group1), added |-> {}]
    ELSE IF cur = 0 THEN [current_line |-> cur, added |-> {}]
    ELSE IF startswith(line, <<"+">>) /\ ~startswith(line, <<"+", "+", "+">>)
         THEN [current_line |-> cur + 1, added |-> {cur}]
    ELSE IF startswith(line, <<"-">>) /\ ~startswith(line, <<"-", "-", "-">>)
         THEN [current_line |-> cur, added |-> {cur}]
    ELSE IF ~startswith(line, <<"\\">>)
         THEN [current_line |-> cur + 1, added |-> {cur}]
    ELSE [current_line |-> cur, added |-> {}]

MutParseLineNoHunkGuard(cur, line) ==
    LET m == hunk_match(line) IN
    IF m.ok THEN [current_line |-> int(m.group1), added |-> {}]
    ELSE IF startswith(line, <<"+">>) /\ ~startswith(line, <<"+", "+", "+">>)
         THEN [current_line |-> cur + 1, added |-> {cur}]
    ELSE IF startswith(line, <<"-">>) /\ ~startswith(line, <<"-", "-", "-">>)
         THEN [current_line |-> cur, added |-> {cur}]
    ELSE IF ~startswith(line, <<"\\">>)
         THEN [current_line |-> cur + 1, added |-> {}]
    ELSE [current_line |-> cur, added |-> {}]

MutParseLineRemovedAdvances(cur, line) ==
    LET m == hunk_match(line) IN
    IF m.ok THEN [current_line |-> int(m.group1), added |-> {}]
    ELSE IF cur = 0 THEN [current_line |-> cur, added |-> {}]
    ELSE IF startswith(line, <<"+">>) /\ ~startswith(line, <<"+", "+", "+">>)
         THEN [current_line |-> cur + 1, added |-> {cur}]
    ELSE IF startswith(line, <<"-">>) /\ ~startswith(line, <<"-", "-", "-">>)
         THEN [current_line |-> cur + 1, added |-> {cur}]
    ELSE IF ~startswith(line, <<"\\">>)
         THEN [current_line |-> cur + 1, added |-> {}]
    ELSE [current_line |-> cur, added |-> {}]

MutParseLineZeroBased(cur, line) ==
    LET m == hunk_match(line) IN
    IF m.ok THEN [current_line |-> int(m.group1), added |-> {}]
    ELSE IF cur = 0 THEN [current_line |-> cur, added |-> {}]
    ELSE IF startswith(line, <<"+">>) /\ ~startswith(line, <<"+", "+", "+">>)
         THEN [current_line |-> cur + 1, added |-> {cur - 1}]
    ELSE IF startswith(line, <<"-">>) /\ ~startswith(line, <<"-", "-", "-">>)
         THEN [current_line |-> cur, added |-> {cur - 1}]
    ELSE IF ~startswith(line, <<"\\">>)
         THEN [current_line |-> cur + 1, added |-> {}]
    ELSE [current_line |-> cur, added |-> {}]

MutParseLineAddAfterIncrement(cur, line) ==
    LET m == hunk_match(line) IN
    IF m.ok THEN [current_line |-> int(m.group1), added |-> {}]
    ELSE IF cur = 0 THEN [current_line |-> cur, added |-> {}]
    ELSE IF startswith(line, <<"+">>) /\ ~startswith(line, <<"+", "+", "+">>)
         THEN [current_line |-> cur + 1, added |-> {cur + 1}]
    ELSE IF startswith(line, <<"-">>) /\ ~startswith(line, <<"-", "-", "-">>)
         THEN [current_line |-> cur, added |-> {cur}]
    ELSE IF ~startswith(line, <<"\\">>)
         THEN [current_line |-> cur + 1, added |-> {}]
    ELSE [current_line |-> cur, added |-> {}]

MutParseLineRemovedNotRecorded(cur, line) ==
    LET m == hunk_match(line) IN
    IF m.ok THEN [current_line |-> int(m.group1), added |-> {}]
    ELSE IF cur = 0 THEN [current_line |-> cur, added |-> {}]
    ELSE IF startswith(line, <<"+">>) /\ ~startswith(line, <<"+", "+", "+">>)
         THEN [current_line |-> cur + 1, added |-> {cur}]
    ELSE IF startswith(line, <<"-">>) /\ ~startswith(line, <<"-", "-", "-">>)
         THEN [current_line |-> cur, added |-> {}]
    ELSE IF ~startswith(line, <<"\\">>)
         THEN [current_line |-> cur + 1, added |-> {}]
    ELSE [current_line |-> cur, added |-> {}]

MutParseLineRemovedIgnoresGuard(cur, line) ==
    LET m == hunk_match(line) IN
    IF m.ok THEN [current_line |-> int(m.group1), added |-> {}]
    ELSE IF startswith(line, <<"-">>) /\ ~startswith(line, <<"-", "-", "-">>)
         THEN [current_line |-> cur, added |-> {cur}]
    ELSE IF cur = 0 THEN [current_line |-> cur, added |-> {}]
    ELSE IF startswith(line, <<"+">>) /\ ~startswith(line, <<"+", "+", "+">>)
         THEN [current_line |-> cur + 1, added |-> {cur}]
    ELSE IF ~startswith(line, <<"\\">>)
         THEN [current_line |-> cur + 1, added |-> {}]
    ELSE [current_line |-> cur, added |-> {}]

parse_line(cur, line) ==
    LET m == hunk_match(line) IN
    IF m.ok THEN [current_line |-> int(m.group1), added |-> {}]
    ELSE IF cur = 0 THEN [current_line |-> cur, added |-> {}]
    ELSE IF startswith(line, <<"+">>) /\ ~startswith(line, <<"+", "+", "+">>)
         THEN [current_line |-> cur + 1, added |-> {cur}]
    ELSE IF startswith(line, <<"-">>) /\ ~startswith(line, <<"-", "-", "-">>)
         THEN [current_line |-> cur, added |-> {cur}]
    ELSE IF ~startswith(line, <<"\\">>)
         THEN [current_line |-> cur + 1, added |-> {}]
    ELSE [current_line |-> cur, added |-> {}]

\* `not patch` (patch_parser.py:20): None and the empty string are falsy
not_patch(p) == p = PyNone \/ p = <<>>

\* the for loop over ls from line index i, as a function of its state
RECURSIVE parse_loop(_, _, _, _)
parse_loop(ls, i, cur, acc) ==
    IF i > Len(ls) THEN acc
    ELSE LET r == parse_line(cur, ls[i])
         IN  parse_loop(ls, i + 1, r.current_line, acc \cup r.added)

\* the function as a whole, for its callers
parse_patch_line_numbers(p) ==
    IF not_patch(p) THEN {} ELSE parse_loop(split(p), 1, 0, {})

(***************************************************************************)
(* Patches the parser is run on                                            *)
(***************************************************************************)
MaxPatchLines == 4

HunkAt2  == <<"@", "@", " ", "-", "1", ",", "2", " ", "+", "2", ",", "3", " ", "@", "@">>
HunkAt1  == <<"@", "@", " ", "-", "1", " ", "+", "1", " ", "@", "@", " ", "f">>
HunkAt0  == <<"@", "@", " ", "-", "1", ",", "2", " ", "+", "0", ",", "0", " ", "@", "@">>
HunkAt12 == <<"@", "@", " ", "-", "9", ",", "2", " ", "+", "1", "2", ",", "3", " ", "@", "@">>
NotAHunk == <<"@", "@", " ", "-", "1", " ", "+", "x", " ", "@", "@">>
AddedLine    == <<"+", "a">>
RemovedLine  == <<"-", "a">>
ContextLine  == <<" ", "c">>
MarkerLine   == <<"\\", " ", "N">>
PlusPlusLine   == <<"+", "+", "+", " ", "b">>
MinusMinusLine == <<"-", "-", "-", " ", "a">>
EmptyLine    == <<>>

\* every patch of at most MaxPatchLines lines is built from these
LineVocabulary ==
    {HunkAt2, HunkAt1, AddedLine, RemovedLine, ContextLine, MarkerLine,
     PlusPlusLine, MinusMinusLine}

SeqsUpTo(S, n) == UNION {[1..k -> S] : k \in 0..n}

Range0(q) == {q[i] : i \in DOMAIN q}

Max(S) == CHOOSE x \in S : \A y \in S : y <= x
Min(S) == CHOOSE x \in S : \A y \in S : x <= y

\* spec.md section 8, example 1: "@@ -1,2 +1,3 @@\n context\n+added line\n another\n"
Example1 ==
    join(<<<<"@", "@", " ", "-", "1", ",", "2", " ", "+", "1", ",", "3", " ", "@", "@">>,
           ContextLine, AddedLine, <<" ", "o">>, EmptyLine>>)

\* further patches, with the lines the vocabulary leaves out
ExtraPatches ==
    {PyNone, Example1,
     join(<<HunkAt0, RemovedLine, RemovedLine, EmptyLine>>),
     join(<<HunkAt0, AddedLine, HunkAt2, AddedLine>>),
     join(<<HunkAt12, ContextLine, AddedLine, MinusMinusLine, AddedLine>>),
     join(<<NotAHunk, AddedLine, RemovedLine>>),
     join(<<HunkAt1, NotAHunk, AddedLine, EmptyLine, AddedLine, EmptyLine>>),
     join(<<HunkAt2, MinusMinusLine, RemovedLine, ContextLine>>),
     join(<<MinusMinusLine, PlusPlusLine, HunkAt1, RemovedLine, AddedLine>>)}

Patches == {join(ls) : ls \in SeqsUpTo(LineVocabulary, MaxPatchLines)} \cup ExtraPatches

(***************************************************************************)
(* filter_comments_by_valid_lines                                          *)
(***************************************************************************)
\* A Python value found under a comment's "line" key: its type and, for the
\* numeric types, its value (True is 1; a float is modelled when integral).
\* A missing key reads as None (comment.get("line")).
PyInt(n)   == [type |-> "int", val |-> n]
PyBool(n)  == [type |-> "bool", val |-> n]
PyFloat(n) == [type |-> "float", val |-> n]
PyStr(n)   == [type |-> "str", val |-> n]
PyNoneLine == [type |-> "NoneType", val |-> 0]

\* isinstance(x, int): bool is a subclass of int
isinstance_int(x) == x.type \in {"int", "bool"}

\* `x in s` for a set of ints: numbers compare by value, anything else differs
py_in(x, s) == x.type \in {"int", "bool", "float"} /\ x.val \in s

\* the value of a dict's missing "path" key
NoKey == "<no key>"

\* comment.get("path", "")
get_path(comment) == IF comment.path = NoKey THEN "" ELSE comment.path

\* valid_lines_by_file.get(path, set())
get_valid_lines(by_file, path) ==
    IF path \in DOMAIN by_file THEN by_file[path] ELSE {}

\* patch_parser.py:67-70
build_valid_lines_by_file(ps) ==
    [filename \in DOMAIN ps |-> parse_patch_line_numbers(ps[filename])]

\* patch_parser.py:76-82: the test that sends a comment to `valid`
MutIsValidNoIsinstance(comment, by_file) ==
    py_in(comment.line, get_valid_lines(by_file, get_path(comment)))

is_valid_comment(comment, by_file) ==
    LET path == get_path(comment)
        line == comment.line
        file_valid_lines == get_valid_lines(by_file, path)
    IN  isinstance_int(line) /\ py_in(line, file_valid_lines)

\* patch_parser.py:75-85: one iteration of the loop over the comments
MutFilterStepDropsNoLine(v, inv, comment, by_file) ==
    IF comment.line = PyNoneLine
    THEN [valid |-> v, invalid |-> inv]
    ELSE IF is_valid_comment(comment, by_file)
    THEN [valid |-> Append(v, comment), invalid |-> inv]
    ELSE [valid |-> v, invalid |-> Append(inv, comment)]

MutFilterStepPrepends(v, inv, comment, by_file) ==
    IF is_valid_comment(comment, by_file)
    THEN [valid |-> <<comment>> \o v, invalid |-> inv]
    ELSE [valid |-> v, invalid |-> <<comment>> \o inv]

filter_step(v, inv, comment, by_file) ==
    IF is_valid_comment(comment, by_file)
    THEN [valid |-> Append(v, comment), invalid |-> inv]
    ELSE [valid |-> v, invalid |-> Append(inv, comment)]

RECURSIVE filter_loop(_, _, _, _, _)
filter_loop(cs, i, v, inv, by_file) ==
    IF i > Len(cs) THEN [valid |-> v, invalid |-> inv]
    ELSE LET r == filter_step(v, inv, cs[i], by_file)
         IN  filter_loop(cs, i + 1, r.valid, r.invalid, by_file)

\* the function as a whole, for its callers
filter_comments_by_valid_lines(cs, ps) ==
    filter_loop(cs, 1, <<>>, <<>>, build_valid_lines_by_file(ps))

(***************************************************************************)
(* Comments and patch mappings the filter is run on                        *)
(***************************************************************************)
MaxComments == 2

\* valid lines {1, 3}
PatchA2 == join(<<HunkAt1, AddedLine, ContextLine, RemovedLine>>)
\* valid lines {2}
PatchB == join(<<HunkAt2, AddedLine>>)

\* a.py: absent, Example1 (valid lines {2}), PatchA2 or the empty patch;
\* b.py: absent or PatchB
PatchMaps ==
    LET as == {<<>>} \cup {<<<<"a.py", p>>>> : p \in {Example1, PatchA2, <<>>}}
        bs == {<<>>} \cup {<<<<"b.py", PatchB>>>>}
    IN  {[f \in {e[1] : e \in Range0(a \o b)} |->
             (CHOOSE e \in Range0(a \o b) : e[1] = f)[2]] : a \in as, b \in bs}

LineValues ==
    {PyInt(2), PyInt(99), PyBool(1), PyFloat(2), PyStr(2), PyNoneLine}

Comments ==
    [path : {"a.py", "b.py", NoKey}, line : LineValues, message : {"m"}]

IdleParse ==
    /\ patch = PyNone
    /\ lines = <<>>
    /\ li = 0
    /\ current_line = 0
    /\ valid_lines = {}
    /\ adds = <<>>

IdleGraph ==
    /\ state = <<>>
    /\ model_calls = <<>>
    /\ summary_calls = 0

IdleReview ==
    /\ pr_files = <<>>
    /\ files = <<>>
    /\ reviewable_files = <<>>
    /\ scheduler_calls = <<>>
    /\ all_comments = <<>>
    /\ overall_summary = ""
    /\ valid_comments = <<>>
    /\ invalid_comments = <<>>
    /\ submit_calls = <<>>
    /\ github_reviews = <<>>
    /\ submit_returns = <<>>
    /\ notify_calls = <<>>
    /\ result = [kind |-> "running"]

IdleSched ==
    /\ tasks = <<>>
    /\ permits = 0
    /\ sched_out = <<>>

IdleTools ==
    /\ tool_call = [name |-> "none", path |-> <<>>,
                    outcome |-> [raises |-> FALSE, value |-> <<>>],
                    search |-> <<>>]
    /\ tool_return = [kind |-> "pending", value |-> <<>>]

IdleRef ==
    /\ ref_message = <<>>
    /\ ref_text = <<>>
    /\ ref_settings = [default_repo_owner |-> PyNone,
                       default_repo_name |-> PyNone]
    /\ pr_reference = [kind |-> "pending"]

IdleIntent ==
    /\ event_message = <<>>
    /\ event_text = <<>>
    /\ review_intent = [kind |-> "pending"]

IdleWeb ==
    /\ secrets = [github_webhook_secret |-> PyNone,
                  slack_signing_secret |-> PyNone]
    /\ request = [event |-> PyNone]
    /\ http_response = [status |-> 0, message |-> "pending"]
    /\ background_tasks = <<>>
    /\ review_runs = <<>>

IdleSlack == slack_calls = <<>>

IdleHandlers == IdleIntent /\ IdleWeb /\ IdleSlack

IdleFilter ==
    /\ patches = <<>>
    /\ comments = <<>>
    /\ valid_lines_by_file = <<>>
    /\ ci = 0
    /\ valid = <<>>
    /\ invalid = <<>>

(***************************************************************************)
(* filter_comments_by_valid_lines, one loop iteration per step             *)
(***************************************************************************)
InitFilter ==
    /\ pc = "filter_start"
    /\ patches \in PatchMaps
    /\ comments \in SeqsUpTo(Comments, MaxComments)
    /\ valid_lines_by_file = <<>>
    /\ ci = 0
    /\ valid = <<>>
    /\ invalid = <<>>
    /\ IdleParse
    /\ IdleReview
    /\ IdleGraph
    /\ IdleSched
    /\ IdleTools
    /\ IdleRef
    /\ IdleHandlers

\* patch_parser.py:67-73
FilterBuild ==
    /\ pc = "filter_start"
    /\ valid_lines_by_file' = build_valid_lines_by_file(patches)
    /\ valid' = <<>>
    /\ invalid' = <<>>
    /\ ci' = 1
    /\ pc' = "filter_loop"
    /\ UNCHANGED <<patches, comments, notFilter>>

\* patch_parser.py:75-85: one iteration
FilterComment ==
    /\ pc = "filter_loop"
    /\ ci <= Len(comments)
    /\ LET r == filter_step(valid, invalid, comments[ci], valid_lines_by_file)
       IN  /\ valid' = r.valid
           /\ invalid' = r.invalid
    /\ ci' = ci + 1
    /\ UNCHANGED <<pc, patches, comments, valid_lines_by_file, notFilter>>

\* patch_parser.py:87
FilterReturn ==
    /\ pc = "filter_loop"
    /\ ci > Len(comments)
    /\ pc' = "filter_done"
    /\ UNCHANGED <<fvars, notFilter>>

NextFilter == FilterBuild \/ FilterComment \/ FilterReturn

SpecFilter == InitFilter /\ [][NextFilter]_vars

(***************************************************************************)
(* parse_patch_line_numbers, one loop iteration per step                   *)
(***************************************************************************)
InitParse ==
    /\ pc = "parse_start"
    /\ patch \in Patches
    /\ lines = <<>>
    /\ li = 0
    /\ current_line = 0
    /\ valid_lines = {}
    /\ adds = <<>>
    /\ IdleFilter
    /\ IdleReview
    /\ IdleGraph
    /\ IdleSched
    /\ IdleTools
    /\ IdleRef
    /\ IdleHandlers

\* patch_parser.py:18-24: the early return, or the start of the loop
ParseBegin ==
    /\ pc = "parse_start"
    /\ IF not_patch(patch)
       THEN /\ pc' = "parse_done"
            /\ UNCHANGED <<lines, li>>
       ELSE /\ pc' = "parse_loop"
            /\ lines' = split(patch)
            /\ li' = 1
    /\ UNCHANGED <<patch, current_line, valid_lines, adds, notParse>>

\* patch_parser.py:26-49: one iteration
ParseLine ==
    /\ pc = "parse_loop"
    /\ li <= Len(lines)
    /\ LET r == parse_line(current_line, lines[li])
       IN  /\ current_line' = r.current_line
           /\ valid_lines' = valid_lines \cup r.added
           /\ adds' = Append(adds, r.added)
    /\ li' = li + 1
    /\ UNCHANGED <<pc, patch, lines, notParse>>

\* patch_parser.py:51
ParseReturn ==
    /\ pc = "parse_loop"
    /\ li > Len(lines)
    /\ pc' = "parse_done"
    /\ UNCHANGED <<pvars, notParse>>

NextParse == ParseBegin \/ ParseLine \/ ParseReturn

SpecParse == InitParse /\ [][NextParse]_vars

(***************************************************************************)
(* review_pull_request                                                     *)
(***************************************************************************)
\* settings.max_files_per_review (config.py:39): read from the environment
\* variable MAX_FILES_PER_REVIEW, 50 when unset; here a deployment that sets
\* it low enough for the cap to apply
max_files_per_review == 2

\* f.get("patch") is truthy
MutHasPatchEveryFile(f) == TRUE

has_patch(f) == ~not_patch(f.patch)

\* service.py:28
select_reviewable(fs) == SelectSeq(fs, has_patch)

\* service.py:30-32
MutCapReviewableNoCap(fs) == fs

cap_reviewable(fs) ==
    IF Len(fs) > max_files_per_review
    THEN SubSeq(fs, 1, max_files_per_review)
    ELSE fs

\* service.py:58: {f["filename"]: f["patch"] for f in reviewable_files}
patches_by_filename(fs) ==
    [name \in {fs[i].filename : i \in DOMAIN fs} |->
        fs[Max({i \in DOMAIN fs : fs[i].filename = name})].patch]

\* service.py:66-74: the keyword arguments submit_review is called with
MutSubmitArgsAllComments(body, valid_cs, invalid_cs) ==
    [body |-> body, comments |-> valid_cs \o invalid_cs,
     invalid_comments |-> invalid_cs, event |-> "COMMENT"]

submit_review_args(body, valid_cs, invalid_cs) ==
    [body |-> body, comments |-> valid_cs,
     invalid_comments |-> invalid_cs, event |-> "COMMENT"]

\* github/client.py:77-82: the positional parameters create_review accepts
create_review_max_positional == 4

\* github/service.py:38: the positional arguments submit_review passes to it
create_review_positional_passed == 5

\* Python binds the call before the body runs: too many positional
\* arguments raise TypeError
create_review_call_binds ==
    create_review_positional_passed <= create_review_max_positional

\* github/client.py:84-91: the inline comments of the review
is_review_comment(c) ==
    /\ ~(c.line.type = "NoneType" \/ (c.line.type # "str" /\ c.line.val = 0))
    /\ c.path # NoKey /\ c.path # ""

to_review_comment(c) == [path |-> c.path, line |-> c.line, body |-> c.message]

review_comments_of(cs) ==
    LET kept == SelectSeq(cs, is_review_comment)
    IN  [i \in DOMAIN kept |-> to_review_comment(kept[i])]

\* service.py:94-100 and 36-42: the returned dict
review_outcome(n_files, n_comments, summary) ==
    [kind |-> "returned", success |-> TRUE, files_reviewed |-> n_files,
     comments |-> n_comments, summary |-> summary]

(***************************************************************************)
(* Exceptions and the try statements that handle them                      *)
(***************************************************************************)
NoException == "none"

\* What the collaborators raise: a call that does not bind raises TypeError,
\* PyGithub raises GithubException, slack_sdk raises SlackApiError and
\* get_slack_client raises ValueError without a token (slack/client.py:13-16).
\* All four classes derive from Exception.
ExceptionKinds == {"TypeError", "GithubException", "SlackApiError", "ValueError"}

\* `except clause:` catches the instances of the class and of its subclasses
MutExceptCatchesSameClassOnly(clause, kind) == clause = kind

MutExceptMissesValueError(clause, kind) ==
    kind \in ExceptionKinds \ {"ValueError"} /\ clause \in {kind, "Exception"}

except_catches(clause, kind) ==
    kind \in ExceptionKinds /\ clause \in {kind, "Exception"}

\* what a try statement whose handlers are `clauses` lets through
propagates(kind, clauses) ==
    IF kind # NoException
       /\ ~\E i \in DOMAIN clauses : except_catches(clauses[i], kind)
    THEN kind
    ELSE NoException

\* service.py:76 and service.py:91: `except Exception as e`, which logs
review_pull_request_handlers == <<"Exception">>

\* slack/service.py:319-322 and 413-416: `except SlackApiError`, then
\* `except Exception`, which log
slack_handlers == <<"SlackApiError", "Exception">>

\* github/service.py:26-42: fetch_pull_request is called outside the try
\* statement; create_review is called inside it, and what it raises is
\* logged and raised again
submit_review_raises(fetch_ok, create_ok) ==
    IF ~fetch_ok THEN "GithubException"
    ELSE IF ~create_review_call_binds THEN "TypeError"
    ELSE IF ~create_ok THEN "GithubException"
    ELSE NoException

\* what a call of the Slack client ends with
SlackOutcomes == {NoException, "SlackApiError", "ValueError"}

\* slack/service.py:333-416 (_send_author_dm): no direct message without a
\* Slack user for the author; opening the conversation and posting are
\* inside the try statement
send_author_dm(mapped, dm_exc) ==
    IF ~mapped
    THEN [dm |-> "no_mapping", raised |-> NoException]
    ELSE [dm |-> IF dm_exc = NoException THEN "sent" ELSE "failed",
          raised |-> propagates(dm_exc, slack_handlers)]

\* slack/service.py:239-330: nothing is sent without a channel; the channel
\* post is inside a try statement; the author's direct message follows
send_review_notification(channel, post_exc, mapped, dm_exc) ==
    IF ~channel
    THEN [posted |-> FALSE, dm |-> "not_attempted", raised |-> NoException]
    ELSE IF propagates(post_exc, slack_handlers) # NoException
    THEN [posted |-> FALSE, dm |-> "not_attempted",
          raised |-> propagates(post_exc, slack_handlers)]
    ELSE [posted |-> post_exc = NoException,
          dm |-> send_author_dm(mapped, dm_exc).dm,
          raised |-> send_author_dm(mapped, dm_exc).raised]

(***************************************************************************)
(* Pull requests the orchestrator is run on                                *)
(***************************************************************************)
MaxFiles == 3
MaxReviewComments == 2

ChangedFiles ==
    {[filename |-> "a.py", patch |-> Example1],
     [filename |-> "a.py", patch |-> <<>>],
     [filename |-> "b.py", patch |-> PatchB],
     [filename |-> "b.py", patch |-> <<>>],
     [filename |-> "c.py", patch |-> PatchA2]}

\* the file listings of a pull request: no filename twice
FileLists ==
    {fs \in SeqsUpTo(ChangedFiles, MaxFiles) :
        \A i, j \in DOMAIN fs : i # j => fs[i].filename # fs[j].filename}

\* the "line" values a model's JSON answer may hold
ReviewLineValues == {PyInt(2), PyInt(99), PyBool(1), PyNoneLine}

Summaries == {"LGTM", "No files were reviewed."}

\* What review_files_parallel may return for `fs` (service.py:45 calls it,
\* graph.py does not define it; spec.md section 4.4): comments whose path is
\* the filename of one of the files, in file order, and an overall summary.
review_files_parallel_results(fs) ==
    {[comments |-> cs, summary |-> sm] :
        cs \in {q \in SeqsUpTo([path : {fs[i].filename : i \in DOMAIN fs},
                                line : ReviewLineValues,
                                message : {"m"}], MaxReviewComments) :
                   \A i, j \in DOMAIN q : i < j =>
                       Min({k \in DOMAIN fs : fs[k].filename = q[i].path})
                       <= Min({k \in DOMAIN fs : fs[k].filename = q[j].path})},
        sm \in Summaries}

(***************************************************************************)
(* review_pull_request, one step per call of a collaborator                *)
(***************************************************************************)
InitReview ==
    /\ pc = "review_start"
    /\ pr_files \in FileLists
    /\ files = <<>>
    /\ reviewable_files = <<>>
    /\ scheduler_calls = <<>>
    /\ all_comments = <<>>
    /\ overall_summary = ""
    /\ valid_comments = <<>>
    /\ invalid_comments = <<>>
    /\ submit_calls = <<>>
    /\ github_reviews = <<>>
    /\ submit_returns = <<>>
    /\ notify_calls = <<>>
    /\ result = [kind |-> "running"]
    /\ IdleParse
    /\ IdleFilter
    /\ IdleGraph
    /\ IdleSched
    /\ IdleTools
    /\ IdleRef
    /\ IdleHandlers

\* service.py:22-32: the pull request and its files are fetched, the
\* reviewable files selected and capped
ReviewFetch ==
    /\ pc = "review_start"
    /\ files' = pr_files
    /\ reviewable_files' = cap_reviewable(select_reviewable(pr_files))
    /\ pc' = "review_fetched"
    /\ UNCHANGED <<pr_files, scheduler_calls, all_comments, overall_summary,
                   valid_comments, invalid_comments, submit_calls,
                   github_reviews, submit_returns, notify_calls, result,
                   notReview>>

\* service.py:22-23: fetching raises, and so does review_pull_request
ReviewFetchFails ==
    /\ pc = "review_start"
    /\ result' = [kind |-> "raised"]
    /\ pc' = "review_done"
    /\ UNCHANGED <<pr_files, files, reviewable_files, scheduler_calls,
                   all_comments, overall_summary, valid_comments,
                   invalid_comments, submit_calls, github_reviews,
                   submit_returns, notify_calls, notReview>>

\* service.py:34-42
ReviewNothingToReview ==
    /\ pc = "review_fetched"
    /\ reviewable_files = <<>>
    /\ result' = review_outcome(0, 0, "No reviewable changes found.")
    /\ pc' = "review_done"
    /\ UNCHANGED <<pr_files, files, reviewable_files, scheduler_calls,
                   all_comments, overall_summary, valid_comments,
                   invalid_comments, submit_calls, github_reviews,
                   submit_returns, notify_calls, notReview>>

\* service.py:44-59: the scheduler is handed the reviewable files and
\* returns, and its comments are filtered against the patches of the
\* reviewable files
ReviewRunAndFilter ==
    /\ pc = "review_fetched"
    /\ reviewable_files # <<>>
    /\ scheduler_calls' = Append(scheduler_calls, reviewable_files)
    /\ \E r \in review_files_parallel_results(reviewable_files) :
           /\ all_comments' = r.comments
           /\ overall_summary' = r.summary
           /\ LET part == filter_comments_by_valid_lines(
                              r.comments, patches_by_filename(reviewable_files))
              IN  /\ valid_comments' = part.valid
                  /\ invalid_comments' = part.invalid
    /\ pc' = "review_filtered"
    /\ UNCHANGED <<pr_files, files, reviewable_files, submit_calls,
                   github_reviews, submit_returns, notify_calls, result,
                   notReview>>

\* service.py:65-77 with github/service.py:26-42 and client.py:77-98:
\* submit_review is called; what it raises and review_pull_request's handler
\* at service.py:76 catches is logged, and review_pull_request goes on;
\* what the handler does not catch leaves review_pull_request.
ReviewSubmit ==
    /\ pc = "review_filtered"
    /\ submit_calls' = Append(submit_calls,
           submit_review_args(overall_summary, valid_comments, invalid_comments))
    /\ \E fetch_ok, create_ok \in BOOLEAN :
           LET raised == propagates(submit_review_raises(fetch_ok, create_ok),
                                    review_pull_request_handlers)
           IN  /\ github_reviews' =
                      IF submit_review_raises(fetch_ok, create_ok) = NoException
                      THEN Append(github_reviews,
                               [body |-> overall_summary, event |-> "COMMENT",
                                comments |-> review_comments_of(
                                    submit_review_args(overall_summary,
                                        valid_comments,
                                        invalid_comments).comments)])
                      ELSE github_reviews
               /\ submit_returns' =
                      Append(submit_returns,
                             [fetch_ok |-> fetch_ok, create_ok |-> create_ok,
                              raised |-> submit_review_raises(fetch_ok,
                                                              create_ok)])
               /\ pc' = IF raised = NoException
                        THEN "review_submitted" ELSE "review_done"
               /\ result' = IF raised = NoException
                            THEN result ELSE [kind |-> "raised"]
    /\ UNCHANGED <<pr_files, files, reviewable_files, scheduler_calls,
                   all_comments, overall_summary, valid_comments,
                   invalid_comments, notify_calls, notReview>>

\* service.py:79-92 with slack/service.py:239-330: send_review_notification
\* is called; what it raises and the handler at service.py:91 catches is
\* logged, and review_pull_request goes on.
ReviewNotify ==
    /\ pc = "review_submitted"
    /\ \E channel, mapped \in BOOLEAN, post_exc, dm_exc \in SlackOutcomes :
           LET sent == send_review_notification(channel, post_exc, mapped, dm_exc)
               raised == propagates(sent.raised, review_pull_request_handlers)
           IN  /\ notify_calls' = Append(notify_calls,
                      [summary |-> overall_summary,
                       comments_count |-> Len(all_comments),
                       posted |-> sent.posted,
                       dm |-> sent.dm])
               /\ pc' = IF raised = NoException
                        THEN "review_notified" ELSE "review_done"
               /\ result' = IF raised = NoException
                            THEN result ELSE [kind |-> "raised"]
    /\ UNCHANGED <<pr_files, files, reviewable_files, scheduler_calls,
                   all_comments, overall_summary, valid_comments,
                   invalid_comments, submit_calls, github_reviews,
                   submit_returns, notReview>>

\* service.py:94-100
ReviewReturn ==
    /\ pc = "review_notified"
    /\ result' = review_outcome(Len(reviewable_files), Len(all_comments),
                                overall_summary)
    /\ pc' = "review_done"
    /\ UNCHANGED <<pr_files, files, reviewable_files, scheduler_calls,
                   all_comments, overall_summary, valid_comments,
                   invalid_comments, submit_calls, github_reviews,
                   submit_returns, notify_calls, notReview>>

NextReview ==
    \/ ReviewFetch
    \/ ReviewFetchFails
    \/ ReviewNothingToReview
    \/ ReviewRunAndFilter
    \/ ReviewSubmit
    \/ ReviewNotify
    \/ ReviewReturn

SpecReview == InitReview /\ [][NextReview]_vars

(***************************************************************************)
(* The review graph                                                        *)
(***************************************************************************)
\* str.find and str.rfind of a character: the 0-based index, -1 when absent
find(s, c) ==
    IF \E i \in DOMAIN s : s[i] = c
    THEN Min({i \in DOMAIN s : s[i] = c}) - 1
    ELSE -1

rfind(s, c) ==
    IF \E i \in DOMAIN s : s[i] = c
    THEN Max({i \in DOMAIN s : s[i] = c}) - 1
    ELSE -1

\* The content of a model response: `text` is its characters as far as
\* process_review_result looks at them (braces, and x for any other stretch
\* of text); `json` is what json.loads does with the span from the first { to
\* the last }, when there is one: it raises JSONDecodeError ("invalid") or
\* returns an object with its "comments" (the "line" values) and a "summary"
\* that is truthy or not.
EmptyContent   == [text |-> <<>>, json |-> "none", comments |-> <<>>,
                   summary |-> FALSE]
NoJsonContent  == [text |-> <<"x">>, json |-> "none", comments |-> <<>>,
                   summary |-> FALSE]
ReversedBracesContent ==
    [text |-> <<"}", "x", "{">>, json |-> "none", comments |-> <<>>,
     summary |-> FALSE]
BadJsonContent == [text |-> <<"x", "{", "{", "}">>, json |-> "invalid",
                   comments |-> <<>>, summary |-> FALSE]
ObjectContent(cs, sm) == [text |-> <<"x", "{", "x", "}", "x">>,
                          json |-> "object", comments |-> cs, summary |-> sm]

\* An object whose "comments" is no list of objects: null, a number, a
\* non-empty string, or a list of numbers (`json` names which); and a
\* content that is no string but a list of content blocks.
MalformedShapes ==
    {"comments_null", "comments_number", "comments_text",
     "comments_of_numbers"}

MalformedContent(shape) ==
    [text |-> <<"{", "x", "}">>, json |-> shape, comments |-> <<>>,
     summary |-> TRUE]

NonStringContent == [text |-> <<>>, json |-> "content_not_str",
                     comments |-> <<>>, summary |-> FALSE]

\* a message of the history; `file` records the file under review when the
\* message was created, tool_calls the names of the tools an AI message asks
\* for; the content of a tool message is its text
SystemMessage(f) == [type |-> "system", file |-> f, tool_calls |-> <<>>,
                     content |-> NoJsonContent]
HumanMessage(f)  == [type |-> "human", file |-> f, tool_calls |-> <<>>,
                     content |-> NoJsonContent]
AIMessage(f, calls, c) == [type |-> "ai", file |-> f, tool_calls |-> calls,
                           content |-> c]
ToolMessage(f, text) == [type |-> "tool", file |-> f, tool_calls |-> <<>>,
                         content |-> text]

\* state.py:23: the reducer of `messages` appends what a node returns
add_messages(left, right) == left \o right

\* a node's update is merged into the state: `messages` through its reducer,
\* every other key by replacement
apply_update(st, upd) ==
    [k \in DOMAIN st |->
        IF k \notin DOMAIN upd THEN st[k]
        ELSE IF k = "messages" THEN add_messages(st[k], upd[k])
        ELSE upd[k]]

\* graph.py:70-103 (current_file_index counts from 0)
select_next_file(st) ==
    LET idx == st.current_file_index IN
    IF idx >= Len(st.files) THEN <<>>
    ELSE [messages |-> <<SystemMessage(idx), HumanMessage(idx)>>]

\* graph.py:185-191
MutContinueOrSummarizeOneEarly(st) ==
    IF st.current_file_index + 1 >= Len(st.files)
    THEN "generate_summary"
    ELSE "review_file"

should_continue_or_summarize(st) ==
    IF st.current_file_index >= Len(st.files)
    THEN "generate_summary"
    ELSE "review_file"

\* graph.py:105-109, for the response the model gives
review_file_node(st, response) == [messages |-> <<response>>]

\* graph.py:111-133
MutRouteAfterReviewSkipsTools(st) ==
    LET last_message == st.messages[Len(st.messages)] IN
    IF last_message.type # "ai" THEN "select_file"
    ELSE "process_review"

route_after_review(st) ==
    LET last_message == st.messages[Len(st.messages)] IN
    IF last_message.type # "ai" THEN "select_file"
    ELSE IF last_message.tool_calls # <<>> THEN "tools"
    ELSE "process_review"

\* tools.py:182: the tools the graph's ToolNode is built with
ToolNames == {"get_file", "list_files", "search_codebase", "get_imports",
              "find_related_files"}

\* tools.py:31-38 and the like: a tool returns its result, or, when the
\* fetch behind it raises, a text that names the failure
tool_result(name, raised) ==
    IF ~raised THEN "result"
    ELSE IF name = "get_file" THEN "Error fetching file: e"
    ELSE IF name = "list_files" THEN "Error listing directory: e"
    ELSE IF name = "search_codebase" THEN "Error searching code: e"
    ELSE IF name = "get_imports" THEN "Error extracting imports: e"
    ELSE "Error finding related files: e"

\* graph.py:231, the prebuilt ToolNode on one tool call: a call that names
\* none of its tools is answered with the node's own invalid-tool text, any
\* other call with what the tool returns
tool_message(f, name, raised) ==
    IF name \notin ToolNames
    THEN ToolMessage(f, "Error: " \o name \o " is not a valid tool")
    ELSE ToolMessage(f, tool_result(name, raised))

\* the calls of a message that name a tool of the tool set
known_calls(message) ==
    {i \in DOMAIN message.tool_calls : message.tool_calls[i] \in ToolNames}

\* one tool message per tool call of the last message, in the calls' order;
\* raised[i] tells whether the fetch behind call i raises
tools_node(st, raised) ==
    LET last_message == st.messages[Len(st.messages)]
    IN  [messages |->
            [i \in DOMAIN last_message.tool_calls |->
                tool_message(last_message.file, last_message.tool_calls[i],
                             i \in known_calls(last_message) /\ raised[i])]]

\* graph.py:137-170: the exception that leaves process_review_result,
\* NoException when it returns. `content.find` needs a string (147);
\* json.loads raises JSONDecodeError, the one exception caught (171);
\* the loop of 154-159 iterates result.get("comments", []) and calls
\* .get on every element.
process_review_raises(st) ==
    LET last_message == st.messages[Len(st.messages)]
        content == IF last_message.type = "ai" THEN last_message.content
                   ELSE EmptyContent
        json_start == find(content.text, "{")
        json_end == rfind(content.text, "}") + 1
    IN  IF content.json = "content_not_str" THEN "AttributeError"
        ELSE IF ~(json_start # -1 /\ json_end > json_start) THEN NoException
        ELSE IF content.json \in {"comments_null", "comments_number"}
        THEN "TypeError"
        ELSE IF content.json \in {"comments_text", "comments_of_numbers"}
        THEN "AttributeError"
        ELSE NoException

\* graph.py:135-183
MutProcessReviewNoFallback(st) ==
    LET last_message == st.messages[Len(st.messages)]
        content == IF last_message.type = "ai" THEN last_message.content
                   ELSE EmptyContent
        current_file == st.files[st.current_file_index + 1]
        json_start == find(content.text, "{")
        json_end == rfind(content.text, "}") + 1
        has_span == json_start # -1 /\ json_end > json_start
        new_comments ==
            IF has_span /\ content.json = "object"
            THEN [i \in DOMAIN content.comments |->
                     [path |-> current_file.filename,
                      line |-> content.comments[i], message |-> "m"]]
            ELSE <<>>
        new_summaries ==
            IF has_span /\ content.json = "object" /\ content.summary
            THEN <<[filename |-> current_file.filename, text |-> "summary"]>>
            ELSE <<>>
    IN  [file_comments |-> st.file_comments \o new_comments,
         file_summaries |-> st.file_summaries \o new_summaries,
         current_file_index |-> st.current_file_index + 1,
         messages |-> <<>>]

MutProcessReviewPrepends(st) ==
    LET last_message == st.messages[Len(st.messages)]
        content == IF last_message.type = "ai" THEN last_message.content
                   ELSE EmptyContent
        current_file == st.files[st.current_file_index + 1]
        json_start == find(content.text, "{")
        json_end == rfind(content.text, "}") + 1
        has_span == json_start # -1 /\ json_end > json_start
        new_comments ==
            IF has_span /\ content.json = "object"
            THEN [i \in DOMAIN content.comments |->
                     [path |-> current_file.filename,
                      line |-> content.comments[i], message |-> "m"]]
            ELSE <<>>
        new_summaries ==
            IF has_span /\ content.json = "object" /\ content.summary
            THEN <<[filename |-> current_file.filename, text |-> "summary"]>>
            ELSE IF has_span /\ content.json = "invalid"
            THEN <<[filename |-> current_file.filename,
                    text |-> "Review completed (parse error)"]>>
            ELSE <<>>
    IN  [file_comments |-> new_comments \o st.file_comments,
         file_summaries |-> new_summaries \o st.file_summaries,
         current_file_index |-> st.current_file_index + 1,
         messages |-> <<>>]

MutProcessReviewSkipsFile(st) ==
    LET last_message == st.messages[Len(st.messages)]
        content == IF last_message.type = "ai" THEN last_message.content
                   ELSE EmptyContent
        current_file == st.files[st.current_file_index + 1]
        json_start == find(content.text, "{")
        json_end == rfind(content.text, "}") + 1
        has_span == json_start # -1 /\ json_end > json_start
        new_comments ==
            IF has_span /\ content.json = "object"
            THEN [i \in DOMAIN content.comments |->
                     [path |-> current_file.filename,
                      line |-> content.comments[i], message |-> "m"]]
            ELSE <<>>
        new_summaries ==
            IF has_span /\ content.json = "object" /\ content.summary
            THEN <<[filename |-> current_file.filename, text |-> "summary"]>>
            ELSE IF has_span /\ content.json = "invalid"
            THEN <<[filename |-> current_file.filename,
                    text |-> "Review completed (parse error)"]>>
            ELSE <<>>
    IN  [file_comments |-> st.file_comments \o new_comments,
         file_summaries |-> st.file_summaries \o new_summaries,
         current_file_index |-> st.current_file_index + 2,
         messages |-> <<>>]

process_review_result(st) ==
    LET last_message == st.messages[Len(st.messages)]
        content == IF last_message.type = "ai" THEN last_message.content
                   ELSE EmptyContent
        current_file == st.files[st.current_file_index + 1]
        json_start == find(content.text, "{")
        json_end == rfind(content.text, "}") + 1
        has_span == json_start # -1 /\ json_end > json_start
        new_comments ==
            IF has_span /\ content.json = "object"
            THEN [i \in DOMAIN content.comments |->
                     [path |-> current_file.filename,
                      line |-> content.comments[i], message |-> "m"]]
            ELSE <<>>
        new_summaries ==
            IF has_span /\ content.json = "object" /\ content.summary
            THEN <<[filename |-> current_file.filename, text |-> "summary"]>>
            ELSE IF has_span /\ content.json = "invalid"
            THEN <<[filename |-> current_file.filename,
                    text |-> "Review completed (parse error)"]>>
            ELSE <<>>
    IN  [file_comments |-> st.file_comments \o new_comments,
         file_summaries |-> st.file_summaries \o new_summaries,
         current_file_index |-> st.current_file_index + 1,
         messages |-> <<>>]

\* graph.py:193-223, for the summary the model gives when it is asked
MutGenerateSummaryAlwaysAsks(st, summary) ==
    [overall_summary |-> summary, review_complete |-> TRUE]

generate_summary_node(st, summary) ==
    IF st.file_summaries = <<>>
    THEN [overall_summary |-> "No files were reviewed.",
          review_complete |-> TRUE]
    ELSE [overall_summary |-> summary, review_complete |-> TRUE]

\* graph.py:197-215: the invocations of the summary model in one run of
\* generate_summary_node
summary_llm_invocations(st) ==
    IF st.file_summaries = <<>> THEN 0 ELSE 1

(***************************************************************************)
(* Runs of the review graph                                                *)
(***************************************************************************)
MaxGraphFiles == 2
\* the language model is invoked at most this often in one run of the graph:
\* the graph itself sets no limit
MaxModelCalls == 6

GraphFileNames == <<"a.py", "b.py", "c.py", "d.py">>

\* the files of a run: the first n of the names, each with a patch
GraphFileLists ==
    {[i \in 1..n |-> [filename |-> GraphFileNames[i], patch |-> PatchB]] :
        n \in 0..MaxGraphFiles}

\* the tool calls of a response: a name that is no tool, then a tool of the
\* tool set
ToolCallLists == {<<"run_tests", "get_file">>}

\* what the model may answer: tool calls, or a final content
ModelResponses(f) ==
    {AIMessage(f, calls, NoJsonContent) : calls \in ToolCallLists}
    \cup {AIMessage(f, <<>>, c) :
            c \in {EmptyContent, NoJsonContent, ReversedBracesContent,
                   BadJsonContent, ObjectContent(<<PyInt(2)>>, TRUE)}}

InitGraph ==
    /\ pc = "select_file"
    /\ \E fs \in GraphFileLists :
           state = [files |-> fs,
                    current_file_index |-> 0,
                    messages |-> <<>>,
                    file_comments |-> <<>>,
                    file_summaries |-> <<>>,
                    overall_summary |-> "None",
                    review_complete |-> FALSE]
    /\ model_calls = <<>>
    /\ summary_calls = 0
    /\ IdleParse
    /\ IdleFilter
    /\ IdleReview
    /\ IdleSched
    /\ IdleTools
    /\ IdleRef
    /\ IdleHandlers

\* node select_file and the edge out of it (graph.py:239-246)
GraphSelectFile ==
    /\ pc = "select_file"
    /\ state' = apply_update(state, select_next_file(state))
    /\ pc' = should_continue_or_summarize(state')
    /\ UNCHANGED <<model_calls, summary_calls, notGraph>>

\* node review_file and the edge out of it (graph.py:248-256)
GraphReviewFile ==
    /\ pc = "review_file"
    /\ Len(model_calls) < MaxModelCalls
    /\ \E response \in ModelResponses(state.current_file_index) :
           state' = apply_update(state, review_file_node(state, response))
    /\ model_calls' = Append(model_calls, state.current_file_index)
    /\ pc' = route_after_review(state')
    /\ UNCHANGED <<summary_calls, notGraph>>

\* node tools and the edge tools -> review_file (graph.py:258)
GraphTools ==
    /\ pc = "tools"
    /\ \E raised \in [known_calls(state.messages[Len(state.messages)])
                        -> BOOLEAN] :
           state' = apply_update(state, tools_node(state, raised))
    /\ pc' = "review_file"
    /\ UNCHANGED <<model_calls, summary_calls, notGraph>>

\* node process_review and the edge process_review -> select_file
\* (graph.py:259)
GraphProcessReview ==
    /\ pc = "process_review"
    /\ IF process_review_raises(state) = NoException
       THEN /\ state' = apply_update(state, process_review_result(state))
            /\ pc' = "select_file"
       ELSE /\ state' = state
            /\ pc' = "raised"
    /\ UNCHANGED <<model_calls, summary_calls, notGraph>>

\* node generate_summary and the edge generate_summary -> END (graph.py:260)
GraphGenerateSummary ==
    /\ pc = "generate_summary"
    /\ \E summary \in {"LGTM", "Needs changes"} :
           state' = apply_update(state, generate_summary_node(state, summary))
    /\ summary_calls' = summary_calls + summary_llm_invocations(state)
    /\ pc' = "END"
    /\ UNCHANGED <<model_calls, notGraph>>

NextGraph ==
    \/ GraphSelectFile
    \/ GraphReviewFile
    \/ GraphTools
    \/ GraphProcessReview
    \/ GraphGenerateSummary

SpecGraph == InitGraph /\ [][NextGraph]_vars

\* the event loop runs every node that is due, and every model and tool
\* call returns
SpecGraphFair == SpecGraph /\ WF_vars(NextGraph)

(***************************************************************************)
(* process_review_result on every shape of final message                   *)
(***************************************************************************)
\* what the final message of a file's loop may hold
FinalContents ==
    {EmptyContent, NoJsonContent, ReversedBracesContent, BadJsonContent,
     ObjectContent(<<PyInt(2)>>, TRUE), ObjectContent(<<PyInt(2)>>, FALSE),
     ObjectContent(<<>>, TRUE), ObjectContent(<<>>, FALSE),
     NonStringContent}
    \cup {MalformedContent(shape) : shape \in MalformedShapes}

\* the graph at the process_review step of file idx, the earlier files
\* having been reviewed with a summary each
InitExtract ==
    /\ pc = "process_review"
    /\ \E fs \in GraphFileLists \ {<<>>}, c \in FinalContents :
       \E idx \in 0..(Len(fs) - 1) :
           /\ state = [files |-> fs,
                       current_file_index |-> idx,
                       messages |-> <<SystemMessage(idx), HumanMessage(idx),
                                      AIMessage(idx, <<>>, c)>>,
                       file_comments |-> <<>>,
                       file_summaries |->
                           [i \in 1..idx |->
                               [filename |-> fs[i].filename,
                                text |-> "summary"]],
                       overall_summary |-> "None",
                       review_complete |-> FALSE]
           /\ model_calls = [i \in 1..(idx + 1) |-> i - 1]
    /\ summary_calls = 0
    /\ IdleParse
    /\ IdleFilter
    /\ IdleReview
    /\ IdleSched
    /\ IdleTools
    /\ IdleRef
    /\ IdleHandlers

\* the step, the selection of the next file and, after the last file, the
\* summary
NextExtract ==
    \/ GraphProcessReview
    \/ GraphSelectFile
    \/ GraphGenerateSummary

SpecExtract == InitExtract /\ [][NextExtract]_vars

(***************************************************************************)
(* The parallel review scheduler (spec.md 4.4 and 5). review_pull_request  *)
(* calls review_files_parallel(..., max_concurrency=5) (service.py:45-53); *)
(* the sources do not hold the function, so it is modelled as the          *)
(* specification describes it: one task per file, an admission gate of     *)
(* max_concurrency permits around each task's review, a join, aggregation  *)
(* in file order, and the overall summary.                                 *)
(***************************************************************************)
\* service.py:52
MaxSchedFiles == 7

MutMaxConcurrencyUnbounded == MaxSchedFiles

max_concurrency == 5

SchedFileNames == <<"f1", "f2", "f3", "f4", "f5", "f6", "f7", "f8", "f9">>

\* the FileReviewResult of the review of file i when it succeeds: files
\* differ in the number of their comments
file_review_result(i) ==
    [filename |-> SchedFileNames[i],
     comments |-> [k \in 1..(i % 3) |-> [line |-> PyInt(k), message |-> "m"]],
     summary |-> "summary"]

\* how a file's review may end: it returns its result, it raises, or it is
\* terminated abnormally
TaskOutcomes == {"completed", "raised", "aborted"}

\* the gate: a permit is taken when there is one
can_acquire(free) == free > 0

acquire(free) == free - 1

\* the permits a task gives back when its review ends with `outcome`: the
\* release is unconditional
MutReleaseOnlyOnSuccess(free, outcome) ==
    IF outcome = "completed" THEN free + 1 ELSE free

release(free, outcome) == free + 1

\* the status of a task whose review ended with `outcome`
task_status(outcome) ==
    IF outcome = "completed" THEN "succeeded" ELSE "failed"

\* the comments of the successful results among files i..n, in file order,
\* each with its file's name as path
RECURSIVE aggregate_comments(_, _)
aggregate_comments(ts, i) ==
    IF i > Len(ts) THEN <<>>
    ELSE (IF ts[i].status = "succeeded"
          THEN [k \in DOMAIN ts[i].result.comments |->
                   [path |-> ts[i].result.filename,
                    line |-> ts[i].result.comments[k].line,
                    message |-> ts[i].result.comments[k].message]]
          ELSE <<>>)
         \o aggregate_comments(ts, i + 1)

\* the "**filename**: summary" lines of the successful results, in file order
RECURSIVE aggregate_summaries(_, _)
aggregate_summaries(ts, i) ==
    IF i > Len(ts) THEN <<>>
    ELSE (IF ts[i].status = "succeeded"
          THEN <<[filename |-> ts[i].result.filename,
                  text |-> ts[i].result.summary]>>
          ELSE <<>>)
         \o aggregate_summaries(ts, i + 1)

\* the join: every task has ended, successfully or not
all_tasks_ended(ts) ==
    \A i \in DOMAIN ts : ts[i].status \in {"succeeded", "failed"}

\* aggregation and the final step, for the summary the model gives when asked
MutAggregateEveryTask(ts, summary) ==
    LET every == [i \in DOMAIN ts |->
                     [status |-> "succeeded", result |-> file_review_result(i)]]
        summaries == aggregate_summaries(every, 1)
    IN  [comments |-> aggregate_comments(every, 1),
         file_summaries |-> summaries,
         overall_summary |-> IF summaries = <<>>
                             THEN "No files were reviewed." ELSE summary,
         summary_invocations |-> IF summaries = <<>> THEN 0 ELSE 1]

aggregate(ts, summary) ==
    LET summaries == aggregate_summaries(ts, 1)
    IN  [comments |-> aggregate_comments(ts, 1),
         file_summaries |-> summaries,
         overall_summary |-> IF summaries = <<>>
                             THEN "No files were reviewed." ELSE summary,
         summary_invocations |-> IF summaries = <<>> THEN 0 ELSE 1]

NoSchedulerOutput == [comments |-> <<>>, file_summaries |-> <<>>,
                      overall_summary |-> "None", summary_invocations |-> 0]

\* a task that has returned no result
NoResult == [filename |-> "None", comments |-> <<>>, summary |-> "None"]

NewTask == [status |-> "submitted", result |-> NoResult]

\* all files are submitted at once
InitSched ==
    /\ pc = "sched_running"
    /\ \E n \in 1..MaxSchedFiles : tasks = [i \in 1..n |-> NewTask]
    /\ permits = max_concurrency
    /\ sched_out = NoSchedulerOutput
    /\ IdleParse
    /\ IdleFilter
    /\ IdleReview
    /\ IdleGraph
    /\ IdleTools
    /\ IdleRef
    /\ IdleHandlers

\* the task of file i passes the gate and its review begins
SchedAcquire(i) ==
    /\ pc = "sched_running"
    /\ tasks[i].status = "submitted"
    /\ can_acquire(permits)
    /\ permits' = acquire(permits)
    /\ tasks' = [tasks EXCEPT ![i].status = "running"]
    /\ UNCHANGED <<pc, sched_out, notSched>>

\* the review of file i ends, and its permit is given back
SchedFinish(i) ==
    /\ pc = "sched_running"
    /\ tasks[i].status = "running"
    /\ \E outcome \in TaskOutcomes :
           /\ tasks' = [tasks EXCEPT ![i] =
                  [status |-> task_status(outcome),
                   result |-> IF outcome = "completed"
                              THEN file_review_result(i) ELSE NoResult]]
           /\ permits' = release(permits, outcome)
    /\ UNCHANGED <<pc, sched_out, notSched>>

\* every task has ended: the results are aggregated and the overall summary
\* is made
SchedJoin ==
    /\ pc = "sched_running"
    /\ all_tasks_ended(tasks)
    /\ \E summary \in {"LGTM"} : sched_out' = aggregate(tasks, summary)
    /\ pc' = "sched_done"
    /\ UNCHANGED <<tasks, permits, notSched>>

NextSched ==
    \/ \E i \in DOMAIN tasks : SchedAcquire(i)
    \/ \E i \in DOMAIN tasks : SchedFinish(i)
    \/ SchedJoin

SpecSched == InitSched /\ [][NextSched]_vars

\* every model and tool call returns in the end, and the event loop runs
\* every task that can run
SpecSchedFair == SpecSched /\ WF_vars(NextSched)

(***************************************************************************)
(* The repository tools of the review agent (reviewer/tools.py)            *)
(***************************************************************************)
\* The string literals of tools.py, character by character. The two type
\* indicators of tools.py:56 are one emoji character each.
ToolTexts ==
    [error_fetching_file |->
         <<"E", "r", "r", "o", "r", " ", "f", "e", "t", "c", "h", "i", "n",
           "g", " ", "f", "i", "l", "e", ":", " ">>,
     truncation_marker |->
         <<NL, NL, ".", ".", ".", " ", "[", "t", "r", "u", "n", "c", "a",
           "t", "e", "d", ",", " ", "f", "i", "l", "e", " ", "t", "o", "o",
           " ", "l", "a", "r", "g", "e", "]">>,
     folder |-> <<"[folder emoji]">>,
     page |-> <<"[page emoji]">>,
     empty_directory |->
         <<"E", "m", "p", "t", "y", " ", "d", "i", "r", "e", "c", "t", "o",
           "r", "y">>,
     error_listing_directory |->
         <<"E", "r", "r", "o", "r", " ", "l", "i", "s", "t", "i", "n", "g",
           " ", "d", "i", "r", "e", "c", "t", "o", "r", "y", ":", " ">>,
     no_results_found |->
         <<"N", "o", " ", "r", "e", "s", "u", "l", "t", "s", " ", "f", "o",
           "u", "n", "d">>,
     error_searching_code |->
         <<"E", "r", "r", "o", "r", " ", "s", "e", "a", "r", "c", "h", "i",
           "n", "g", " ", "c", "o", "d", "e", ":", " ">>,
     import_space |->
         <<"i", "m", "p", "o", "r", "t", " ">>,
     from_space |->
         <<"f", "r", "o", "m", " ">>,
     import_word |->
         <<"i", "m", "p", "o", "r", "t">>,
     no_imports_found |->
         <<"N", "o", " ", "i", "m", "p", "o", "r", "t", "s", " ", "f", "o",
           "u", "n", "d">>,
     unsupported_file_type |->
         <<"U", "n", "s", "u", "p", "p", "o", "r", "t", "e", "d", " ", "f",
           "i", "l", "e", " ", "t", "y", "p", "e", " ", "f", "o", "r", " ",
           "i", "m", "p", "o", "r", "t", " ", "e", "x", "t", "r", "a", "c",
           "t", "i", "o", "n">>,
     error_extracting_imports |->
         <<"E", "r", "r", "o", "r", " ", "e", "x", "t", "r", "a", "c", "t",
           "i", "n", "g", " ", "i", "m", "p", "o", "r", "t", "s", ":", " ">>,
     dot_py |-> <<".", "p", "y">>,
     dot_ts |-> <<".", "t", "s">>,
     dot_tsx |-> <<".", "t", "s", "x">>,
     dot_js |-> <<".", "j", "s">>,
     dot_jsx |-> <<".", "j", "s", "x">>,
     related_files_found |->
         <<"R", "e", "l", "a", "t", "e", "d", " ", "f", "i", "l", "e", "s",
           " ", "f", "o", "u", "n", "d", ":", NL>>,
     no_related_files_found |->
         <<"N", "o", " ", "r", "e", "l", "a", "t", "e", "d", " ", "f", "i",
           "l", "e", "s", " ", "f", "o", "u", "n", "d">>]

\* str.endswith
endswith(s, suffix) ==
    /\ Len(s) >= Len(suffix)
    /\ SubSeq(s, Len(s) - Len(suffix) + 1, Len(s)) = suffix

\* the characters str.strip() removes, which are those \s matches
Whitespace == {" ", "\t", NL, "\r", "\f"}

\* str.strip()
strip(s) ==
    LET RECURSIVE lstrip(_)
        lstrip(x) ==
            IF x # <<>> /\ x[1] \in Whitespace THEN lstrip(Tail(x)) ELSE x
        RECURSIVE rstrip(_)
        rstrip(x) ==
            IF x # <<>> /\ x[Len(x)] \in Whitespace
            THEN rstrip(SubSeq(x, 1, Len(x) - 1))
            ELSE x
    IN  rstrip(lstrip(s))

\* s[:n]
slice_to(s, n) == SubSeq(s, 1, Min({n, Len(s)}))

\* What a request made of services/github/service.py ends with: a value,
\* or an exception whose str() is `message`
Returning(v) == [raises |-> FALSE, value |-> v]

Raising(message) == [raises |-> TRUE, value |-> message]

\* What a call of a tool ends with: a returned text (or, were an exception
\* to reach the caller, kind "raised")
returned(text) == [kind |-> "returned", value |-> text]

\* tools.py:34-35: the size ceiling of get_file is 50000 characters; the
\* model keeps the comparison and the slice and scales the ceiling down
get_file_max_chars == 3

\* tools.py:18-38
MutGetFileTruncatesAtCeiling(fetched) ==
    IF fetched.raises
    THEN returned(ToolTexts.error_fetching_file \o fetched.value)
    ELSE IF Len(fetched.value) >= get_file_max_chars
    THEN returned(slice_to(fetched.value, get_file_max_chars)
                  \o ToolTexts.truncation_marker)
    ELSE returned(fetched.value)

get_file(fetched) ==
    IF fetched.raises
    THEN returned(ToolTexts.error_fetching_file \o fetched.value)
    ELSE IF Len(fetched.value) > get_file_max_chars
    THEN returned(slice_to(fetched.value, get_file_max_chars)
                  \o ToolTexts.truncation_marker)
    ELSE returned(fetched.value)

\* tools.py:40-60
MutListFilesNoHandler(listed) ==
    IF listed.raises
    THEN [kind |-> "raised", value |-> listed.value]
    ELSE returned(ToolTexts.empty_directory)

list_files(listed) ==
    IF listed.raises
    THEN returned(ToolTexts.error_listing_directory \o listed.value)
    ELSE LET contents == listed.value
             type_indicator(item) ==
                 IF item.type = "dir" THEN ToolTexts.folder
                 ELSE ToolTexts.page
             shown == [i \in DOMAIN contents |->
                          type_indicator(contents[i]) \o <<" ">>
                          \o contents[i].path]
         IN  IF shown # <<>>
             THEN returned(join(shown))
             ELSE returned(ToolTexts.empty_directory)

\* tools.py:62-83
search_codebase(found) ==
    IF found.raises
    THEN returned(ToolTexts.error_searching_code \o found.value)
    ELSE IF found.value = <<>>
    THEN returned(ToolTexts.no_results_found)
    ELSE LET results == slice_to(found.value, 10)
         IN  returned(join([i \in DOMAIN results |->
                               <<"-", " ">> \o results[i].path]))

\* tools.py:85-121. python_import_lines is the loop of 102-110: the import
\* lines at the head of a Python file. ts_import_match says whether
\* ^import\s+.*?['"].*?['"];?$ (tools.py:115, under re.MULTILINE) matches a
\* line: "import", white space, and then two quote characters of which the
\* second ends the line or is followed by the line's last ";" ("." matches
\* no newline, so a match that begins on a line of text after "import" ends
\* on it).
MutGetImportsNoImportsForUnknown(path, fetched) ==
    IF fetched.raises
    THEN returned(ToolTexts.error_extracting_imports \o fetched.value)
    ELSE returned(ToolTexts.no_imports_found)

get_imports(path, fetched) ==
    LET RECURSIVE python_import_lines(_, _, _)
        python_import_lines(ls, i, import_lines) ==
            IF i > Len(ls) THEN import_lines
            ELSE LET line == strip(ls[i])
                 IN  IF startswith(line, ToolTexts.import_space)
                        \/ startswith(line, ToolTexts.from_space)
                     THEN python_import_lines(ls, i + 1,
                                              Append(import_lines, line))
                     ELSE IF line # <<>> /\ ~startswith(line, <<"#">>)
                             /\ import_lines # <<>>
                     THEN import_lines
                     ELSE python_import_lines(ls, i + 1, import_lines)
        ts_import_match(line) ==
            /\ startswith(line, ToolTexts.import_word)
            /\ Len(line) >= 7 /\ line[7] \in Whitespace
            /\ \E q1, q2 \in 8..Len(line) :
                   /\ q1 < q2
                   /\ line[q1] \in {"'", "\""} /\ line[q2] \in {"'", "\""}
                   /\ \/ q2 = Len(line)
                      \/ q2 = Len(line) - 1 /\ line[Len(line)] = ";"
        script_suffixes == {ToolTexts.dot_ts, ToolTexts.dot_tsx,
                            ToolTexts.dot_js, ToolTexts.dot_jsx}
    IN  IF fetched.raises
        THEN returned(ToolTexts.error_extracting_imports \o fetched.value)
        ELSE IF endswith(path, ToolTexts.dot_py)
        THEN LET import_lines ==
                     python_import_lines(split(fetched.value), 1, <<>>)
             IN  IF import_lines # <<>>
                 THEN returned(join(import_lines))
                 ELSE returned(ToolTexts.no_imports_found)
        ELSE IF \E suffix \in script_suffixes : endswith(path, suffix)
        THEN LET imports == SelectSeq(split(fetched.value), ts_import_match)
             IN  IF imports # <<>>
                 THEN returned(join(imports))
                 ELSE returned(ToolTexts.no_imports_found)
        ELSE returned(ToolTexts.unsupported_file_type)

\* tools.py:123-180. `searches` holds what search_code ends with for each of
\* the six queries, in the order they are made: the four test patterns
\* (145-160), then the two type patterns (163-174), all built from the
\* file's name. add_results is the loop of 156-158 and 170-172; what a
\* search raises is passed over (159-160, 173-174).
MutFindRelatedFilesKeepsRepeats(searches) ==
    LET RECURSIVE search_related(_, _)
        search_related(k, related) ==
            IF k > Len(searches) THEN related
            ELSE IF searches[k].raises THEN search_related(k + 1, related)
            ELSE search_related(k + 1,
                     related \o [i \in DOMAIN slice_to(searches[k].value, 3)
                                    |-> searches[k].value[i].path])
        related == search_related(1, <<>>)
    IN  IF related # <<>>
        THEN returned(ToolTexts.related_files_found
                      \o join([i \in DOMAIN related |->
                                  <<"-", " ">> \o related[i]]))
        ELSE returned(ToolTexts.no_related_files_found)

find_related_files(searches) ==
    LET RECURSIVE add_results(_, _, _)
        add_results(related, results, i) ==
            IF i > Len(results) THEN related
            ELSE IF \E k \in DOMAIN related : related[k] = results[i].path
            THEN add_results(related, results, i + 1)
            ELSE add_results(Append(related, results[i].path), results, i + 1)
        RECURSIVE search_related(_, _)
        search_related(k, related) ==
            IF k > Len(searches) THEN related
            ELSE IF searches[k].raises THEN search_related(k + 1, related)
            ELSE search_related(k + 1,
                     add_results(related, slice_to(searches[k].value, 3), 1))
        related == search_related(1, <<>>)
    IN  IF related # <<>>
        THEN returned(ToolTexts.related_files_found
                      \o join([i \in DOMAIN related |->
                                  <<"-", " ">> \o related[i]]))
        ELSE returned(ToolTexts.no_related_files_found)

(***************************************************************************)
(* parse_pr_reference (core/pr_parser.py)                                  *)
(***************************************************************************)
\* The literals and letters of the patterns of pr_parser.py:29, 39 and 61
RefTexts ==
    [upper |-> <<"A", "B", "C", "D", "E", "F", "G", "H", "I", "J", "K",
                 "L", "M", "N", "O", "P", "Q", "R", "S", "T", "U", "V",
                 "W", "X", "Y", "Z">>,
     lower |-> <<"a", "b", "c", "d", "e", "f", "g", "h", "i", "j", "k",
                 "l", "m", "n", "o", "p", "q", "r", "s", "t", "u", "v",
                 "w", "x", "y", "z">>,
     http_github |-> <<"h", "t", "t", "p", ":", "/", "/", "g", "i", "t",
                       "h", "u", "b", ".", "c", "o", "m", "/">>,
     https_github |-> <<"h", "t", "t", "p", "s", ":", "/", "/", "g", "i",
                        "t", "h", "u", "b", ".", "c", "o", "m", "/">>,
     slash_pull_slash |-> <<"/", "p", "u", "l", "l", "/">>,
     review |-> <<"r", "e", "v", "i", "e", "w">>,
     pr |-> <<"p", "r">>,
     pull |-> <<"p", "u", "l", "l">>,
     request |-> <<"r", "e", "q", "u", "e", "s", "t">>]

\* length of the run of characters of S that starts at position i of t
RECURSIVE CharRun(_, _, _)
CharRun(t, i, S) ==
    IF i <= Len(t) /\ t[i] \in S THEN 1 + CharRun(t, i + 1, S) ELSE 0

\* a match object with its groups, or None
NoMatch == [matched |-> FALSE, groups |-> <<>>]

Match(groups) == [matched |-> TRUE, groups |-> groups]

\* re.search: the match at the leftmost position that has one
re_search(t, match_at(_, _)) ==
    LET RECURSIVE search_from(_)
        search_from(s) ==
            IF s > Len(t) THEN NoMatch
            ELSE IF match_at(t, s).matched THEN match_at(t, s)
            ELSE search_from(s + 1)
    IN  search_from(1)

\* pr_parser.py:29: https?://github\.com/([^/]+)/([^/]+)/pull/(\d+) tried at
\* position s. A group of non-slash characters that a slash must follow ends
\* at the first slash, and \d+ is greedy with nothing required after it.
url_match_at(t, s) ==
    LET find_from(i, c) ==
            IF \E k \in i..Len(t) : t[k] = c
            THEN Min({k \in i..Len(t) : t[k] = c})
            ELSE 0
        o1 == IF LitAt(t, s, RefTexts.https_github)
              THEN s + Len(RefTexts.https_github)
              ELSE IF LitAt(t, s, RefTexts.http_github)
              THEN s + Len(RefTexts.http_github)
              ELSE 0
        o2 == IF o1 > 0 THEN find_from(o1, "/") ELSE 0
        r2 == IF o2 > o1 THEN find_from(o2 + 1, "/") ELSE 0
        n1 == r2 + Len(RefTexts.slash_pull_slash)
    IN  IF o1 > 0 /\ o2 > o1 /\ r2 > o2 + 1
           /\ LitAt(t, r2, RefTexts.slash_pull_slash) /\ DigitRun(t, n1) > 0
        THEN Match(<<SubSeq(t, o1, o2 - 1), SubSeq(t, o2 + 1, r2 - 1),
                     SubSeq(t, n1, n1 + DigitRun(t, n1) - 1)>>)
        ELSE NoMatch

\* [a-zA-Z0-9_-] and [a-zA-Z0-9_.-] (pr_parser.py:39)
OwnerChars ==
    Range0(RefTexts.upper) \cup Range0(RefTexts.lower) \cup Digit
    \cup {"_", "-"}

RepoChars == OwnerChars \cup {"."}

\* pr_parser.py:39: ([a-zA-Z0-9_-]+)/([a-zA-Z0-9_.-]+)#(\d+) tried at
\* position s. Each run is greedy, and the character required after it is
\* not one of the run's own, so no shorter run can match.
full_ref_match_at(t, s) ==
    LET on == CharRun(t, s, OwnerChars)
        r1 == s + on + 1
        rn == CharRun(t, r1, RepoChars)
        n1 == r1 + rn + 1
    IN  IF on > 0 /\ LitAt(t, s + on, <<"/">>)
           /\ rn > 0 /\ LitAt(t, r1 + rn, <<"#">>)
           /\ DigitRun(t, n1) > 0
        THEN Match(<<SubSeq(t, s, s + on - 1), SubSeq(t, r1, r1 + rn - 1),
                     SubSeq(t, n1, n1 + DigitRun(t, n1) - 1)>>)
        ELSE NoMatch

\* pr_parser.py:49: (?:^|\s)#(\d+)(?:\s|$) tried at position s: the "#" is
\* the first character of the text, or follows the white space at s; after
\* the digits comes white space or the end of the text
short_match_at(t, s) ==
    LET h == IF s = 1 /\ t[1] = "#" THEN 1
             ELSE IF t[s] \in Whitespace /\ LitAt(t, s + 1, <<"#">>)
             THEN s + 1
             ELSE 0
        n1 == h + 1
        e == n1 + DigitRun(t, n1)
    IN  IF h > 0 /\ DigitRun(t, n1) > 0
           /\ (e > Len(t) \/ t[e] \in Whitespace)
        THEN Match(<<SubSeq(t, n1, e - 1)>>)
        ELSE NoMatch

\* pr_parser.py:61-62: (?:review|pr|pull\s*request)\s+(\d+) under
\* re.IGNORECASE tried at position s; re.IGNORECASE compares the lower-case
\* forms of the characters
number_match_at(t, s) ==
    LET lower(c) ==
            IF \E i \in DOMAIN RefTexts.upper : RefTexts.upper[i] = c
            THEN RefTexts.lower[CHOOSE i \in DOMAIN RefTexts.upper :
                                    RefTexts.upper[i] = c]
            ELSE c
        word_at(i, p) ==
            /\ i + Len(p) - 1 <= Len(t)
            /\ \A k \in DOMAIN p : lower(t[i + k - 1]) = p[k]
        pull_ws == CharRun(t, s + Len(RefTexts.pull), Whitespace)
        e == IF word_at(s, RefTexts.review)
             THEN s + Len(RefTexts.review)
             ELSE IF word_at(s, RefTexts.pr)
             THEN s + Len(RefTexts.pr)
             ELSE IF word_at(s, RefTexts.pull)
                     /\ word_at(s + Len(RefTexts.pull) + pull_ws,
                                RefTexts.request)
             THEN s + Len(RefTexts.pull) + pull_ws + Len(RefTexts.request)
             ELSE 0
        n1 == e + CharRun(t, e, Whitespace)
    IN  IF e > 0 /\ n1 > e /\ DigitRun(t, n1) > 0
        THEN Match(<<SubSeq(t, n1, n1 + DigitRun(t, n1) - 1)>>)
        ELSE NoMatch

\* pr_parser.py:10-16
PRReference(owner, repo, pr_number) ==
    [kind |-> "PRReference", owner |-> owner, repo |-> repo,
     pr_number |-> pr_number]

NoReference == [kind |-> "None"]

\* pr_parser.py:52 and 64: `not settings.default_repo_owner or not
\* settings.default_repo_name`; None and "" are falsy
MutDefaultsMissingOwnerOnly(s) ==
    s.default_repo_owner = PyNone \/ s.default_repo_owner = <<>>

defaults_missing(s) ==
    \/ s.default_repo_owner = PyNone \/ s.default_repo_owner = <<>>
    \/ s.default_repo_name = PyNone \/ s.default_repo_name = <<>>

\* pr_parser.py:51-58 and 63-70
default_reference(s, m) ==
    IF defaults_missing(s)
    THEN NoReference
    ELSE PRReference(s.default_repo_owner, s.default_repo_name,
                     int(m.groups[1]))

\* pr_parser.py:19-72
MutParsePrReferenceFullRefFirst(t, s) ==
    LET url == re_search(t, url_match_at)
        full_ref == re_search(t, full_ref_match_at)
        short == re_search(t, short_match_at)
        number == re_search(t, number_match_at)
    IN  IF full_ref.matched
        THEN PRReference(full_ref.groups[1], full_ref.groups[2],
                         int(full_ref.groups[3]))
        ELSE IF url.matched
        THEN PRReference(url.groups[1], url.groups[2], int(url.groups[3]))
        ELSE IF short.matched THEN default_reference(s, short)
        ELSE IF number.matched THEN default_reference(s, number)
        ELSE NoReference

parse_pr_reference(t, s) ==
    LET url == re_search(t, url_match_at)
        full_ref == re_search(t, full_ref_match_at)
        short == re_search(t, short_match_at)
        number == re_search(t, number_match_at)
    IN  IF url.matched
        THEN PRReference(url.groups[1], url.groups[2], int(url.groups[3]))
        ELSE IF full_ref.matched
        THEN PRReference(full_ref.groups[1], full_ref.groups[2],
                         int(full_ref.groups[3]))
        ELSE IF short.matched THEN default_reference(s, short)
        ELSE IF number.matched THEN default_reference(s, number)
        ELSE NoReference

(***************************************************************************)
(* The messages parse_pr_reference is given: parts separated by one space  *)
(***************************************************************************)
MaxParts == 3

\* The parts of a message: the form of reference a part is, its text and,
\* for a reference, the owner, repository and number it names.
\*   https://github.com/acme/project/pull/42
\*   <http://github.com/o/r.js/pull/7/files>
\*   acme/my-repo#456
\*   (foo/bar.js#09)
\*   #789
\*   #12.               the number is followed by a full stop
\*   review 55
\*   PR 077
\*   Pull  Request 8
\*   please
\*   a/b
Parts ==
    LET part(form, text, owner, repo, number) ==
            [form |-> form, text |-> text, owner |-> owner, repo |-> repo,
             number |-> number]
    IN  {part("url",
              <<"h", "t", "t", "p", "s", ":", "/", "/", "g", "i", "t", "h",
                "u", "b", ".", "c", "o", "m", "/", "a", "c", "m", "e", "/",
                "p", "r", "o", "j", "e", "c", "t", "/", "p", "u", "l", "l",
                "/", "4", "2">>,
              <<"a", "c", "m", "e">>,
              <<"p", "r", "o", "j", "e", "c", "t">>, 42),
         part("url",
              <<"<", "h", "t", "t", "p", ":", "/", "/", "g", "i", "t", "h",
                "u", "b", ".", "c", "o", "m", "/", "o", "/", "r", ".", "j",
                "s", "/", "p", "u", "l", "l", "/", "7", "/", "f", "i", "l",
                "e", "s", ">">>,
              <<"o">>,
              <<"r", ".", "j", "s">>, 7),
         part("full_ref",
              <<"a", "c", "m", "e", "/", "m", "y", "-", "r", "e", "p", "o",
                "#", "4", "5", "6">>,
              <<"a", "c", "m", "e">>,
              <<"m", "y", "-", "r", "e", "p", "o">>, 456),
         part("full_ref",
              <<"(", "f", "o", "o", "/", "b", "a", "r", ".", "j", "s", "#",
                "0", "9", ")">>,
              <<"f", "o", "o">>,
              <<"b", "a", "r", ".", "j", "s">>, 9),
         part("short",
              <<"#", "7", "8", "9">>, <<>>, <<>>, 789),
         part("short_punctuated",
              <<"#", "1", "2", ".">>, <<>>, <<>>, 12),
         part("number",
              <<"r", "e", "v", "i", "e", "w", " ", "5", "5">>, <<>>, <<>>, 55),
         part("number",
              <<"P", "R", " ", "0", "7", "7">>, <<>>, <<>>, 77),
         part("number",
              <<"P", "u", "l", "l", " ", " ", "R", "e", "q", "u", "e", "s",
                "t", " ", "8">>, <<>>, <<>>, 8),
         part("word",
              <<"p", "l", "e", "a", "s", "e">>, <<>>, <<>>, 0),
         part("word",
              <<"a", "/", "b">>, <<>>, <<>>, 0)}

\* config.py:34-35: the defaults, None when unset; an environment variable
\* may also set them to the empty string
Settings ==
    [default_repo_owner : {PyNone, <<>>, <<"d", "f", "l", "t">>},
     default_repo_name : {PyNone, <<"r", "e", "p", "o">>}]

\* the text of a message: " ".join of the parts' texts
RECURSIVE render(_)
render(ps) ==
    IF ps = <<>> THEN <<>>
    ELSE IF Len(ps) = 1 THEN ps[1].text
    ELSE ps[1].text \o <<" ">> \o render(Tail(ps))

InitRef ==
    /\ pc = "ref_start"
    /\ ref_message \in SeqsUpTo(Parts, MaxParts)
    /\ ref_text = render(ref_message)
    /\ ref_settings \in Settings
    /\ pr_reference = [kind |-> "pending"]
    /\ IdleParse
    /\ IdleFilter
    /\ IdleReview
    /\ IdleGraph
    /\ IdleSched
    /\ IdleTools
    /\ IdleHandlers

\* pr_parser.py:19-72
ParsePrReference ==
    /\ pc = "ref_start"
    /\ pr_reference' = parse_pr_reference(ref_text, ref_settings)
    /\ pc' = "ref_done"
    /\ UNCHANGED <<ref_message, ref_text, ref_settings, notRef>>

NextRef == ParsePrReference

SpecRef == InitRef /\ [][NextRef]_vars

(***************************************************************************)
(* Tool calls and what the repository answers them with                    *)
(***************************************************************************)
MaxSourceLines == 2
MaxListing == 2

\* The calls of the tools: the tool's name, its path argument, what its one
\* request of the repository ends with and, for find_related_files, what its
\* six searches end with. A request raises with the message "404" or with
\* none; get_file is answered with contents of up to two characters more
\* than the ceiling; get_imports is asked about files of up to
\* MaxSourceLines lines; search_code returns up to MaxListing results, or
\* more than the ten that search_codebase shows.
ToolCalls ==
    LET call(name, path, outcome, searches) ==
            [name |-> name, path |-> path, outcome |-> outcome,
             search |-> searches]
        failures == {Raising(<<"4", "0", "4">>), Raising(<<>>)}
        answers(values) == failures \cup {Returning(v) : v \in values}
        t_py == [path |-> <<"t", ".", "p", "y">>]
        u_ts == [path |-> <<"u", ".", "t", "s">>]
        v_py == [path |-> <<"v", ".", "p", "y">>]
        w_py == [path |-> <<"w", ".", "p", "y">>]
        directory_items ==
            {[type |-> "dir", path |-> <<"s", "r", "c">>],
             [type |-> "file", path |-> <<"a", ".", "p", "y">>]}
        source_lines ==
            {<<"i", "m", "p", "o", "r", "t", " ", "o", "s">>,
             <<" ", " ", "f", "r", "o", "m", " ", "a", " ", "i", "m", "p",
               "o", "r", "t", " ", "b">>,
             <<"#", " ", "c">>,
             <<"x", " ", "=", " ", "1">>,
             <<>>,
             <<"i", "m", "p", "o", "r", "t", " ", "a", " ", "f", "r", "o",
               "m", " ", "'", "b", "'", ";">>,
             <<"i", "m", "p", "o", "r", "t", " ", "\"", "z", "\"">>,
             <<"i", "m", "p", "o", "r", "t", " ", "x">>}
        import_paths ==
            {<<"a", ".", "p", "y">>,
             <<"a", ".", "t", "s">>,
             <<"a", ".", "t", "s", "x">>,
             <<"a", ".", "j", "s">>,
             <<"a", ".", "j", "s", "x">>,
             <<"a", ".", "g", "o">>,
             <<"a", ".", "p", "y", "c">>,
             <<"a", ".", "P", "Y">>,
             <<"a", ".", "p", "y", ".", "m", "d">>,
             <<"s", "/", "M", "a", "k", "e", "f", "i", "l", "e">>}
        related_searches ==
            {Raising(<<"4", "0", "4">>),
             Returning(<<>>),
             Returning(<<u_ts, t_py>>),
             Returning(<<v_py, v_py, t_py, w_py>>)}
    IN  {call("get_file", <<"a", ".", "p", "y">>, o, <<>>) :
            o \in answers(SeqsUpTo({"a", NL}, get_file_max_chars + 2))}
        \cup
        {call("list_files", <<"s", "r", "c">>, o, <<>>) :
            o \in answers(SeqsUpTo(directory_items, MaxListing))}
        \cup
        {call("search_codebase", <<"x">>, o, <<>>) :
            o \in answers(SeqsUpTo({t_py, u_ts}, MaxListing)
                          \cup {[i \in 1..11 |-> t_py]})}
        \cup
        {call("get_imports", p, o, <<>>) :
            p \in import_paths,
            o \in answers({join(ls) :
                              ls \in SeqsUpTo(source_lines, MaxSourceLines)})}
        \cup
        {call("find_related_files",
              <<"s", "/", "a", ".", "p", "y">>, Returning(<<>>), s) :
            s \in [1..6 -> related_searches]}

InitTools ==
    /\ pc = "tool_start"
    /\ tool_call \in ToolCalls
    /\ tool_return = [kind |-> "pending", value |-> <<>>]
    /\ IdleParse
    /\ IdleFilter
    /\ IdleReview
    /\ IdleGraph
    /\ IdleSched
    /\ IdleRef
    /\ IdleHandlers

ToolGetFile ==
    /\ pc = "tool_start"
    /\ tool_call.name = "get_file"
    /\ tool_return' = get_file(tool_call.outcome)
    /\ pc' = "tool_done"
    /\ UNCHANGED <<tool_call, notTools>>

ToolListFiles ==
    /\ pc = "tool_start"
    /\ tool_call.name = "list_files"
    /\ tool_return' = list_files(tool_call.outcome)
    /\ pc' = "tool_done"
    /\ UNCHANGED <<tool_call, notTools>>

ToolSearchCodebase ==
    /\ pc = "tool_start"
    /\ tool_call.name = "search_codebase"
    /\ tool_return' = search_codebase(tool_call.outcome)
    /\ pc' = "tool_done"
    /\ UNCHANGED <<tool_call, notTools>>

ToolGetImports ==
    /\ pc = "tool_start"
    /\ tool_call.name = "get_imports"
    /\ tool_return' = get_imports(tool_call.path, tool_call.outcome)
    /\ pc' = "tool_done"
    /\ UNCHANGED <<tool_call, notTools>>

ToolFindRelatedFiles ==
    /\ pc = "tool_start"
    /\ tool_call.name = "find_related_files"
    /\ tool_return' = find_related_files(tool_call.search)
    /\ pc' = "tool_done"
    /\ UNCHANGED <<tool_call, notTools>>

NextTools ==
    \/ ToolGetFile
    \/ ToolListFiles
    \/ ToolSearchCodebase
    \/ ToolGetImports
    \/ ToolFindRelatedFiles

SpecTools == InitTools /\ [][NextTools]_vars

(***************************************************************************)
(* extract_review_intent (core/pr_parser.py:75-86)                         *)
(***************************************************************************)
\* pr_parser.py:77-84
review_keywords ==
    <<<<"r", "e", "v", "i", "e", "w">>,
      <<"c", "h", "e", "c", "k">>,
      <<"l", "o", "o", "k", " ", "a", "t">>,
      <<"e", "x", "a", "m", "i", "n", "e">>,
      <<"a", "n", "a", "l", "y", "z", "e">>,
      <<"i", "n", "s", "p", "e", "c", "t">>>>

\* str.lower, on ASCII text
str_lower(s) ==
    [i \in DOMAIN s |->
        IF \E k \in DOMAIN RefTexts.upper : RefTexts.upper[k] = s[i]
        THEN RefTexts.lower[CHOOSE k \in DOMAIN RefTexts.upper :
                                RefTexts.upper[k] = s[i]]
        ELSE s[i]]

\* `p in s` of two strings
contains(s, p) == \E i \in 1..(Len(s) - Len(p) + 1) : LitAt(s, i, p)

\* the keywords are searched in the text as it is written
MutExtractReviewIntentCaseSensitive(text) ==
    \E k \in DOMAIN review_keywords : contains(text, review_keywords[k])

\* pr_parser.py:75-86
extract_review_intent(text) ==
    LET text_lower == str_lower(text)
    IN  \E k \in DOMAIN review_keywords :
            contains(text_lower, review_keywords[k])

MaxIntentParts == 3

\* The words a message is made of. `keyword`: the word holds one of the
\* one-word keywords, in any case; `look`: it ends with "look"; `at`: it
\* starts with "at". The empty word makes two spaces in a row.
IntentParts ==
    LET part(text, keyword, look, at) ==
            [text |-> text, keyword |-> keyword, look |-> look, at |-> at]
    IN  {part(<<"r", "e", "v", "i", "e", "w">>, TRUE, FALSE, FALSE),
         part(<<"R", "E", "V", "I", "E", "W">>, TRUE, FALSE, FALSE),
         part(<<"r", "e", "v", "i", "e", "w", "e", "r", "?">>,
              TRUE, FALSE, FALSE),
         part(<<"C", "h", "e", "c", "k">>, TRUE, FALSE, FALSE),
         part(<<"E", "x", "a", "m", "i", "n", "e">>, TRUE, FALSE, FALSE),
         part(<<"r", "e", "-", "a", "n", "a", "l", "y", "z", "e">>,
              TRUE, FALSE, FALSE),
         part(<<"i", "n", "S", "P", "E", "C", "t">>, TRUE, FALSE, FALSE),
         part(<<"l", "o", "o", "k">>, FALSE, TRUE, FALSE),
         part(<<"O", "u", "t", "L", "o", "o", "k">>, FALSE, TRUE, FALSE),
         part(<<"l", "o", "o", "k", "s">>, FALSE, FALSE, FALSE),
         part(<<"a", "t">>, FALSE, FALSE, TRUE),
         part(<<"A", "T", "t", "a", "c", "h">>, FALSE, FALSE, TRUE),
         part(<<"b", "a", "t">>, FALSE, FALSE, FALSE),
         part(<<"l", "o", "o", "k", "a", "t">>, FALSE, FALSE, FALSE),
         part(<<"a", "n", "a", "l", "y", "s", "e">>, FALSE, FALSE, FALSE),
         part(<<"L", "G", "T", "M">>, FALSE, FALSE, FALSE),
         part(<<"r", "e", "v", "i", "e">>, FALSE, FALSE, FALSE),
         part(<<"w">>, FALSE, FALSE, FALSE),
         part(<<>>, FALSE, FALSE, FALSE)}

InitIntent ==
    /\ pc = "intent_start"
    /\ event_message \in SeqsUpTo(IntentParts, MaxIntentParts)
    /\ event_text = render(event_message)
    /\ review_intent = [kind |-> "pending"]
    /\ IdleWeb
    /\ IdleSlack
    /\ IdleParse
    /\ IdleFilter
    /\ IdleReview
    /\ IdleGraph
    /\ IdleSched
    /\ IdleTools
    /\ IdleRef

\* pr_parser.py:75-86
ExtractReviewIntent ==
    /\ pc = "intent_start"
    /\ review_intent' = [kind |-> "returned",
                         value |-> extract_review_intent(event_text)]
    /\ pc' = "intent_done"
    /\ UNCHANGED <<event_message, event_text, webvars, slackvars,
                   notHandlers>>

NextIntent == ExtractReviewIntent

SpecIntent == InitIntent /\ [][NextIntent]_vars

(***************************************************************************)
(* The GitHub webhook (services/github/routes.py:12-75,                    *)
(* services/github/client.py:15-28)                                        *)
(***************************************************************************)
\* hmac.new(key, msg, hashlib.sha256).hexdigest(): a digest that key and
\* message determine, different for different keys or messages
hexdigest(key, msg) == [key |-> key, msg |-> msg]

\* the text of a signature header: a scheme prefix and a hexadecimal
\* digest, written as the two items it is made of; <<>> is the empty text
signature_text(prefix, digest) == <<prefix, digest>>

\* hmac.compare_digest
compare_digest(a, b) == a = b

\* `not x` of a setting: unset or empty
not_set(x) == x \in {PyNone, <<>>}

\* every delivery verifies
MutVerifyWebhookSignatureSkipped(payload, signature, secret) == TRUE

\* client.py:15-28
verify_webhook_signature(payload, signature, secret) ==
    IF not_set(secret) THEN TRUE
    ELSE compare_digest(signature_text("sha256=", hexdigest(secret, payload)),
                        signature)

\* an HTTP response: the status and the message of its body
Response(status, message) == [status |-> status, message |-> message]

\* dict.get(key) of a JSON object: None when the key is absent
get(obj, key) == IF key \in DOMAIN obj THEN obj[key] ELSE PyNone

\* the empty JSON object
EmptyObject == [x \in {} |-> x]

\* dict.get(key, {})
get_object(obj, key) == IF key \in DOMAIN obj THEN obj[key] ELSE EmptyObject

\* every action of a pull request is reviewed
MutHandlePullRequestAnyAction(payload) ==
    [response |-> Response(200, "Review started"),
     tasks |-> <<[owner |-> get(get_object(get_object(payload, "repository"),
                                           "owner"), "login"),
                  repo |-> get(get_object(payload, "repository"), "name"),
                  pr_number |-> get(get_object(payload, "pull_request"),
                                    "number")]>>]

\* routes.py:38-67: the response, and the tasks added to background_tasks
handle_pull_request(payload) ==
    LET action == get(payload, "action")
        pr == get_object(payload, "pull_request")
        repo == get_object(payload, "repository")
        owner == get(get_object(repo, "owner"), "login")
        repo_name == get(repo, "name")
        pr_number == get(pr, "number")
    IN  IF action \notin {<<"o", "p", "e", "n", "e", "d">>, <<"s", "y",
                                                              "n", "c",
                                                              "h", "r",
                                                              "o", "n",
                                                              "i", "z", "e">>}
        THEN [response |-> Response(200, "Action not reviewed"),
              tasks |-> <<>>]
        ELSE [response |-> Response(200, "Review started"),
              tasks |-> <<[owner |-> owner, repo |-> repo_name,
                           pr_number |-> pr_number]>>]

\* routes.py:12-35: the response, and the tasks added to background_tasks;
\* HTTPException(401) is answered with status 401, and what request.json()
\* raises on a body that is not JSON with status 500
github_webhook(req, secret) ==
    LET event == req.event
        signature == req.signature
        body == req.body
    IN  IF ~verify_webhook_signature(body, signature, secret)
        THEN [response |-> Response(401, "Invalid signature"),
              tasks |-> <<>>]
        ELSE IF ~body.json
        THEN [response |-> Response(500, "JSONDecodeError"), tasks |-> <<>>]
        ELSE IF event = <<"p", "u", "l", "l", "_", "r", "e", "q", "u", "e",
                          "s", "t">>
        THEN handle_pull_request(body.payload)
        ELSE IF event = <<"p", "i", "n", "g">>
        THEN [response |-> Response(200, "pong"), tasks |-> <<>>]
        ELSE [response |-> Response(200, "Event not handled"),
              tasks |-> <<>>]

\* the pull requests deliveries name
PullRequestNames ==
    {[repository |-> [owner |-> [login |-> "acme"], name |-> "project"],
      pull_request |-> [number |-> 42]],
     [repository |-> [owner |-> [login |-> "o"], name |-> "r.js"],
      pull_request |-> [number |-> 7]],
     [repository |-> [owner |-> [login |-> "acme"], name |-> "project"]],
     [sender |-> [login |-> "octocat"]]}

PullRequestActions ==
    {<<"o", "p", "e", "n", "e", "d">>,
     <<"s", "y", "n", "c", "h", "r", "o", "n", "i", "z", "e">>,
     <<"c", "l", "o", "s", "e", "d">>,
     <<"r", "e", "o", "p", "e", "n", "e", "d">>,
     <<"e", "d", "i", "t", "e", "d">>,
     <<"O", "p", "e", "n", "e", "d">>}

NotJson == [json |-> FALSE, payload |-> [raw |-> "not json"]]

\* the bodies of deliveries: pull_request payloads with and without an
\* action, a ping payload, and a body that is not JSON
Bodies ==
    {[json |-> TRUE, payload |-> [x \in {"action"} |-> a] @@ n] :
         a \in PullRequestActions, n \in PullRequestNames}
    \cup {[json |-> TRUE, payload |-> n] : n \in PullRequestNames}
    \cup {[json |-> TRUE, payload |-> [zen |-> "Keep it logically awesome."]],
          NotJson}

\* X-GitHub-Event, None when the header is absent
Events ==
    {<<"p", "u", "l", "l", "_", "r", "e", "q", "u", "e", "s", "t">>,
     <<"p", "i", "n", "g">>,
     <<"p", "u", "s", "h">>,
     <<"P", "U", "L", "L", "_", "R", "E", "Q", "U", "E", "S", "T">>,
     PyNone}

WebhookSecret == <<"s", "3", "c", "r", "e", "t">>

OtherSecret == <<"o", "t", "h", "e", "r">>

\* settings.github_webhook_secret (config.py): unset, empty or set
WebhookSecrets == {PyNone, <<>>, WebhookSecret}

\* X-Hub-Signature-256 of a delivery with body b: GitHub's signature with
\* the configured key, a signature with another key, the signature of
\* another body, the digest under another scheme, and no header ("")
Signatures(b) ==
    {signature_text("sha256=", hexdigest(WebhookSecret, b)),
     signature_text("sha256=", hexdigest(OtherSecret, b)),
     signature_text("sha256=", hexdigest(WebhookSecret, NotJson)),
     signature_text("sha1=", hexdigest(WebhookSecret, b)),
     <<>>}

InitWebhook ==
    /\ pc = "webhook_start"
    /\ secrets \in [github_webhook_secret : WebhookSecrets,
                    slack_signing_secret : {PyNone}]
    /\ \E b \in Bodies :
           request \in [event : Events, signature : Signatures(b), body : {b}]
    /\ http_response = Response(0, "pending")
    /\ background_tasks = <<>>
    /\ review_runs = <<>>
    /\ IdleIntent
    /\ IdleSlack
    /\ IdleParse
    /\ IdleFilter
    /\ IdleReview
    /\ IdleGraph
    /\ IdleSched
    /\ IdleTools
    /\ IdleRef

\* routes.py:12-35
GithubWebhook ==
    /\ pc = "webhook_start"
    /\ LET out == github_webhook(request, secrets.github_webhook_secret)
       IN  /\ http_response' = out.response
           /\ background_tasks' = background_tasks \o out.tasks
    /\ pc' = "webhook_responded"
    /\ UNCHANGED <<secrets, request, review_runs, intentvars, slackvars,
                   notHandlers>>

\* routes.py:70-76: after the response the background tasks run, in the
\* order they were added; run_review calls review_pull_request and logs
\* what it returns or raises
RunReview ==
    /\ pc = "webhook_responded"
    /\ Len(review_runs) < Len(background_tasks)
    /\ \E returns \in BOOLEAN :
           review_runs' =
               Append(review_runs,
                      [task |-> background_tasks[Len(review_runs) + 1],
                       logged |-> IF returns THEN "Review completed"
                                  ELSE "Review failed"])
    /\ UNCHANGED <<pc, secrets, request, http_response, background_tasks,
                   intentvars, slackvars, notHandlers>>

NextWebhook == GithubWebhook \/ RunReview

SpecWebhook == InitWebhook /\ [][NextWebhook]_vars

(***************************************************************************)
(* The Slack events endpoint (services/slack/routes.py:19-44, 130-182)     *)
(***************************************************************************)
\* int() of a string: surrounding whitespace and one sign are allowed and
\* at least one digit is required; ValueError otherwise. (Underscores
\* between digits are not modelled.)
int_of_text(s) ==
    LET t == strip(s)
        signed == t # <<>> /\ t[1] \in {"+", "-"}
        ds == IF signed THEN Tail(t) ELSE t
    IN  IF ds = <<>> \/ \E k \in DOMAIN ds : ds[k] \notin Digit
        THEN Raising("ValueError")
        ELSE Returning(IF signed /\ t[1] = "-" THEN 0 - int(ds)
                       ELSE int(ds))

\* abs()
abs(n) == IF n < 0 THEN 0 - n ELSE n

\* routes.py:30: the age beyond which a request is refused, in seconds
slack_timestamp_tolerance == 300

\* routes.py:34: f"v0:{timestamp}:{body.decode()}", by its items
sig_basestring(timestamp, body) == <<"v0:", timestamp, ":", body>>

\* routes.py:19-44, called at the time current_time
verify_slack_signature(body, timestamp, signature, secret, current_time) ==
    IF not_set(secret) THEN Returning(TRUE)
    ELSE LET request_time == int_of_text(timestamp)
         IN  IF request_time.raises THEN request_time
             ELSE IF abs(current_time - request_time.value)
                         > slack_timestamp_tolerance
             THEN Returning(FALSE)
             ELSE Returning(compare_digest(
                      signature_text("v0=",
                          hexdigest(secret, sig_basestring(timestamp, body))),
                      signature))

\* routes.py:173-178
HelpText == "Hi! I can help you review PRs."

\* routes.py:130-182: the response, and the tasks added to background_tasks.
\* An exception that leaves the handler is answered with status 500.
slack_events(req, secret) ==
    LET timestamp == req.timestamp
        signature == req.signature
        body == req.body
        verified == verify_slack_signature(body, timestamp, signature,
                                           secret, req.received_at)
        payload == body.payload
        event == get_object(payload, "event")
        text == IF "text" \in DOMAIN event THEN event.text ELSE <<>>
        thread_ts == IF get(event, "thread_ts") \notin {PyNone, <<>>}
                     THEN event.thread_ts ELSE get(event, "ts")
    IN  IF verified.raises
        THEN [response |-> Response(500, verified.value), tasks |-> <<>>]
        ELSE IF ~verified.value
        THEN [response |-> Response(401, "Invalid signature"),
              tasks |-> <<>>]
        ELSE IF payload.type = "url_verification"
        THEN [response |-> Response(200, "challenge"), tasks |-> <<>>]
        ELSE IF payload.type = "event_callback"
                /\ event.type = "app_mention"
        THEN IF extract_review_intent(text)
             THEN [response |-> Response(200, "Processing review request"),
                   tasks |-> <<[task |-> "handle_review_request",
                                channel |-> get(event, "channel"),
                                thread_ts |-> thread_ts, text |-> text]>>]
             ELSE [response |-> Response(200, "Sent help message"),
                   tasks |-> <<[task |-> "send_thread_reply",
                                channel |-> get(event, "channel"),
                                thread_ts |-> thread_ts,
                                text |-> HelpText]>>]
        ELSE [response |-> Response(200, "ok"), tasks |-> <<>>]

\* the events Slack sends: the URL verification handshake, mentions of the
\* bot with and without a review keyword, in a thread or not, and events
\* of other types
SlackBodies ==
    LET mention(text) ==
            [type |-> "event_callback",
             event |-> [type |-> "app_mention", text |-> text,
                        channel |-> <<"C", "1">>, ts |-> <<"1", "7", ".",
                                                           "1">>]]
        in_thread(p) ==
            [p EXCEPT !.event = [type |-> p.event.type,
                                 text |-> p.event.text,
                                 channel |-> p.event.channel,
                                 ts |-> p.event.ts,
                                 thread_ts |-> <<"1", "6", ".", "9">>]]
    IN  {[json |-> TRUE, payload |-> p] :
            p \in {[type |-> "url_verification", challenge |-> "c"],
                   mention(<<"p", "l", "e", "a", "s", "e", " ", "r", "e",
                             "v", "i", "e", "w", " ", "#", "1", "2">>),
                   in_thread(mention(<<"C", "h", "e", "c", "k", " ", "a",
                                       "c", "m", "e", "/", "p", "r", "o",
                                       "j", "e", "c", "t", "#", "4">>)),
                   mention(<<"h", "e", "l", "l", "o">>),
                   in_thread(mention(<<>>)),
                   [type |-> "event_callback",
                    event |-> [type |-> "message", text |-> <<"r", "e",
                                                              "v", "i",
                                                              "e", "w">>,
                               channel |-> <<"C", "1">>, ts |-> <<"1", "7",
                                                                  ".", "1">>]],
                   [type |-> "app_rate_limited"]}}

\* the time of the server when the request arrives, in seconds
ReceiveTimes == {1000}

\* X-Slack-Request-Timestamp: "" when the header is missing; text that
\* is no number; times at and beyond the edges of the tolerance
Timestamps ==
    {<<>>,
     <<"s", "o", "o", "n">>,
     <<"1", "2", ".", "5">>,
     <<"1", "0", "0", "0">>,
     <<" ", "1", "0", "0", "0">>,
     <<"7", "0", "0">>,
     <<"6", "9", "9">>,
     <<"1", "3", "0", "0">>,
     <<"1", "3", "0", "1">>,
     <<"-", "1">>}

SigningSecret == <<"s", "i", "g", "n">>

\* settings.slack_signing_secret (config.py:30): unset, empty or set
SigningSecrets == {PyNone, <<>>, SigningSecret}

\* X-Slack-Signature of a request: Slack's signature of timestamp and
\* body with the configured key, one with another key, and no header ("")
SlackSignatures(timestamp, b) ==
    {signature_text("v0=", hexdigest(SigningSecret,
                                     sig_basestring(timestamp, b))),
     signature_text("v0=", hexdigest(OtherSecret,
                                     sig_basestring(timestamp, b))),
     <<>>}

InitSlackEvents ==
    /\ pc = "slack_start"
    /\ secrets \in [github_webhook_secret : {PyNone},
                    slack_signing_secret : SigningSecrets]
    /\ \E b \in SlackBodies, t \in Timestamps :
           request \in [timestamp : {t}, signature : SlackSignatures(t, b),
                        body : {b}, received_at : ReceiveTimes]
    /\ http_response = Response(0, "pending")
    /\ background_tasks = <<>>
    /\ review_runs = <<>>
    /\ IdleIntent
    /\ IdleSlack
    /\ IdleParse
    /\ IdleFilter
    /\ IdleReview
    /\ IdleGraph
    /\ IdleSched
    /\ IdleTools
    /\ IdleRef

\* routes.py:130-182
SlackEvents ==
    /\ pc = "slack_start"
    /\ LET out == slack_events(request, secrets.slack_signing_secret)
       IN  /\ http_response' = out.response
           /\ background_tasks' = background_tasks \o out.tasks
    /\ pc' = "slack_responded"
    /\ UNCHANGED <<secrets, request, review_runs, intentvars, slackvars,
                   notHandlers>>

\* after the response the background tasks run, in the order they were
\* added
RunSlackTask ==
    /\ pc = "slack_responded"
    /\ Len(review_runs) < Len(background_tasks)
    /\ review_runs' =
           Append(review_runs,
                  [task |-> background_tasks[Len(review_runs) + 1],
                   logged |-> "ran"])
    /\ UNCHANGED <<pc, secrets, request, http_response, background_tasks,
                   intentvars, slackvars, notHandlers>>

NextSlackEvents == SlackEvents \/ RunSlackTask

SpecSlackEvents == InitSlackEvents /\ [][NextSlackEvents]_vars

(***************************************************************************)
(* A review requested on Slack (services/slack/routes.py:47-127)           *)
(***************************************************************************)
\* what a call of the Slack client raises: SlackApiError, or ValueError
\* from get_slack_client without a token (slack/client.py:13-16)
SlackFailures == {NoException, "SlackApiError", "ValueError"}

\* routes.py:52, 61, 70: `except Exception as e`, which logs
slack_helper_handlers == <<"Exception">>

\* the helper lets through what the Slack client raises
MutSlackHelperLetsThrough(kind) == kind

\* routes.py:47-71: what leaves add_reaction, remove_reaction and
\* send_thread_reply when their Slack call raises `kind`
slack_helper_raises(kind) == propagates(kind, slack_helper_handlers)

\* a call the handler makes: the function, what it is called with, and
\* what the Slack call inside it raised
Call(function, arg, kind) ==
    [call |-> function, arg |-> arg, raised |-> kind]

\* the calls of a block that are made: those up to the first one that
\* raises
made(cs) ==
    LET stops == {i \in DOMAIN cs :
                     slack_helper_raises(cs[i].raised) # NoException}
    IN  IF stops = {} THEN cs ELSE SubSeq(cs, 1, Min(stops))

\* the block was left by an exception
left_by_exception(cs) ==
    \E i \in DOMAIN cs : slack_helper_raises(cs[i].raised) # NoException

MaxHandlerParts == 1

InitSlackReview ==
    /\ pc = "handler_start"
    /\ ref_message \in SeqsUpTo(Parts, MaxHandlerParts)
    /\ ref_text = render(ref_message)
    /\ ref_settings \in Settings
    /\ pr_reference = [kind |-> "pending"]
    /\ slack_calls = <<>>
    /\ IdleIntent
    /\ IdleWeb
    /\ IdleParse
    /\ IdleFilter
    /\ IdleReview
    /\ IdleGraph
    /\ IdleSched
    /\ IdleTools

\* routes.py:81-99: without a reference one reply is sent and the handler
\* returns; with one the runner reaction is added and the review is
\* started
HandleReviewRequest ==
    /\ pc = "handler_start"
    /\ LET pr_ref == parse_pr_reference(ref_text, ref_settings)
       IN  /\ pr_reference' = pr_ref
           /\ \E kind \in SlackFailures :
                  IF pr_ref = NoReference
                  THEN LET cs == <<Call("send_thread_reply",
                                        "no_reference", kind)>>
                       IN  /\ slack_calls' = slack_calls \o made(cs)
                           /\ pc' = IF left_by_exception(cs)
                                    THEN "handler_raised"
                                    ELSE "handler_done"
                  ELSE LET cs == <<Call("add_reaction", "runner", kind)>>
                       IN  IF left_by_exception(cs)
                           THEN /\ slack_calls' = slack_calls \o made(cs)
                                /\ pc' = "handler_raised"
                           ELSE /\ slack_calls' = slack_calls \o cs \o
                                       <<Call("review_pull_request",
                                              "started", NoException)>>
                                /\ pc' = "handler_reviewing"
    /\ UNCHANGED <<ref_message, ref_text, ref_settings, notSlackReview>>

\* routes.py:99-103 and 119: review_pull_request returns, or raises what
\* `except Exception` catches
ReviewEnds ==
    /\ pc = "handler_reviewing"
    /\ \E returns \in BOOLEAN :
           /\ slack_calls' =
                  Append(slack_calls,
                         Call("review_pull_request",
                              IF returns THEN "returned" ELSE "raised",
                              NoException))
           /\ pc' = IF returns THEN "handler_try" ELSE "handler_except"
    /\ UNCHANGED <<refvars, notSlackReview>>

\* routes.py:105-117: the rest of the try block; an exception takes the
\* handler to the except block
AfterReviewReturned ==
    /\ pc = "handler_try"
    /\ \E k1, k2, k3 \in SlackFailures :
           LET cs == <<Call("remove_reaction", "runner", k1),
                       Call("add_reaction", "white_check_mark", k2),
                       Call("send_thread_reply", "reviewed", k3)>>
           IN  /\ slack_calls' = slack_calls \o made(cs)
               /\ pc' = IF left_by_exception(cs) THEN "handler_except"
                        ELSE "handler_done"
    /\ UNCHANGED <<refvars, notSlackReview>>

\* routes.py:119-127: the except block; an exception leaves the handler
AfterReviewRaised ==
    /\ pc = "handler_except"
    /\ \E k1, k2, k3 \in SlackFailures :
           LET cs == <<Call("remove_reaction", "runner", k1),
                       Call("add_reaction", "x", k2),
                       Call("send_thread_reply", "review_failed", k3)>>
           IN  /\ slack_calls' = slack_calls \o made(cs)
               /\ pc' = IF left_by_exception(cs) THEN "handler_raised"
                        ELSE "handler_done"
    /\ UNCHANGED <<refvars, notSlackReview>>

NextSlackReview ==
    \/ HandleReviewRequest
    \/ ReviewEnds
    \/ AfterReviewReturned
    \/ AfterReviewRaised

SpecSlackReview == InitSlackReview /\ [][NextSlackReview]_vars

(***************************************************************************)
(* The parser's claims. Lines are classified as spec.md section 4.1 does:  *)
(* hunk header, added, removed, marker, and any other line (context).      *)
(***************************************************************************)
IsHunkHeader(l) == hunk_match(l).ok

IsAddedLine(l) ==
    /\ Len(l) >= 1 /\ l[1] = "+"
    /\ ~(Len(l) >= 3 /\ l[2] = "+" /\ l[3] = "+")

IsRemovedLine(l) ==
    /\ Len(l) >= 1 /\ l[1] = "-"
    /\ ~(Len(l) >= 3 /\ l[2] = "-" /\ l[3] = "-")

IsMarkerLine(l) == Len(l) >= 1 /\ l[1] = "\\"

\* any other line: what the parser passes over as context
IsContextLine(l) ==
    ~IsHunkHeader(l) /\ ~IsAddedLine(l) /\ ~IsRemovedLine(l) /\ ~IsMarkerLine(l)

\* an unchanged line of the diff proper: it begins with a space
IsPureContextLine(l) == Len(l) >= 1 /\ l[1] = " "

HeaderIndices == {j \in DOMAIN lines : IsHunkHeader(lines[j])}

\* index of the hunk header line i lies under, 0 before the first hunk header
HunkOf(i) ==
    LET before == {j \in HeaderIndices : j < i}
    IN  IF before = {} THEN 0 ELSE Max(before)

NewStart(j) == int(hunk_match(lines[j]).group1)

\* the new-file line number line i stands at: the new-start of its hunk plus
\* the added and context lines of the hunk before it
NewFileNo(i) ==
    NewStart(HunkOf(i))
    + Cardinality({k \in (HunkOf(i) + 1)..(i - 1) :
                      IsAddedLine(lines[k]) \/ IsContextLine(lines[k])})

\* C5: every member of the result was added while processing a line that
\* begins with + (not +++) or - (not ---) and lies after a hunk header; hunk
\* headers, context lines, \ marker lines and lines before the first hunk
\* header add nothing.
C5_OnlyChangedLinesInHunkAdd ==
    /\ \A i \in DOMAIN adds :
           adds[i] # {} =>
               /\ IsAddedLine(lines[i]) \/ IsRemovedLine(lines[i])
               /\ HunkOf(i) # 0
    /\ valid_lines = UNION {adds[i] : i \in DOMAIN adds}

\* a + line before the first hunk header added nothing, a later one did
C5_Witness ==
    /\ pc = "parse_done"
    /\ Len(lines) >= 3
    /\ IsAddedLine(lines[1]) /\ adds[1] = {}
    /\ \E i \in DOMAIN adds : adds[i] # {} /\ IsAddedLine(lines[i])
    /\ \E i \in DOMAIN adds : IsPureContextLine(lines[i]) /\ HunkOf(i) # 0

\* C6 as stated: the new-file line number a pure context line stands at is
\* not a member of the result.
C6_ContextNumberNeverMember ==
    pc = "parse_done" =>
        \A i \in DOMAIN lines :
            (/\ IsPureContextLine(lines[i])
             /\ HunkOf(i) # 0
             /\ NewStart(HunkOf(i)) >= 1)
            => NewFileNo(i) \notin valid_lines

\* C6 amended: processing a context line adds nothing, and within its own
\* hunk the number a context line stands at is a member only when the context
\* line directly follows a run of removed lines (\ marker lines aside), which
\* recorded that number.
C6_ContextNumberOnlyFromRemovedRun ==
    pc = "parse_done" =>
        \A i \in DOMAIN lines :
            (/\ IsContextLine(lines[i])
             /\ HunkOf(i) # 0
             /\ NewStart(HunkOf(i)) >= 1)
            => /\ adds[i] = {}
               /\ \A j \in (HunkOf(i) + 1)..Len(lines) :
                      (HunkOf(j) = HunkOf(i) /\ NewFileNo(i) \in adds[j])
                      => /\ j < i
                         /\ \A k \in j..(i - 1) :
                                IsRemovedLine(lines[k]) \/ IsMarkerLine(lines[k])

\* a hunk with an added line, a context line whose number stays out, and a
\* removed line whose number is that of the context line after it
C6_Witness ==
    /\ pc = "parse_done"
    /\ \E i \in DOMAIN lines :
           /\ IsPureContextLine(lines[i]) /\ HunkOf(i) # 0
           /\ NewStart(HunkOf(i)) >= 1
           /\ NewFileNo(i) \notin valid_lines
    /\ \E i \in DOMAIN lines :
           /\ IsPureContextLine(lines[i]) /\ HunkOf(i) # 0
           /\ i > 1 /\ IsRemovedLine(lines[i - 1])
           /\ NewFileNo(i) \in valid_lines

\* C7 as stated: every returned number is at least the new-start of the first
\* hunk header of the patch.
C7_AtLeastFirstNewStart ==
    (pc = "parse_done" /\ HeaderIndices # {}) =>
        \A n \in valid_lines : n >= NewStart(Min(HeaderIndices))

HunksAscending ==
    \A j, k \in HeaderIndices : j < k => NewStart(j) <= NewStart(k)

\* C7 amended: every returned number is at least the new-start of the hunk
\* header it was recorded under, hence at least the smallest new-start of the
\* patch; it is at least the first hunk's new-start when no later hunk header
\* has a smaller new-start.
C7_AtLeastOwnHunkNewStart ==
    /\ \A i \in DOMAIN adds : \A n \in adds[i] :
           /\ HunkOf(i) # 0
           /\ n >= NewStart(HunkOf(i))
    /\ (HunksAscending /\ HeaderIndices # {}) =>
           \A n \in valid_lines : n >= NewStart(Min(HeaderIndices))

\* two hunks in ascending order, each of which recorded a number
C7_Witness ==
    /\ pc = "parse_done"
    /\ HunksAscending
    /\ \E j, k \in HeaderIndices :
           /\ j < k /\ NewStart(j) < NewStart(k)
           /\ \E i \in DOMAIN adds : HunkOf(i) = j /\ adds[i] # {}
           /\ \E i \in DOMAIN adds : HunkOf(i) = k /\ adds[i] # {}

\* C8: in a hunk with new-start s, the number recorded for an added line is s
\* plus the count of the added and context lines of the hunk before it;
\* removed and \ marker lines do not count. Header +1, context, added,
\* context yields exactly {2}.
C8_AddedLineNumber ==
    /\ \A i \in DOMAIN adds :
           (/\ IsAddedLine(lines[i])
            /\ HunkOf(i) # 0
            /\ NewStart(HunkOf(i)) >= 1)
           => adds[i] = {NewFileNo(i)}
    /\ (pc = "parse_done" /\ patch = Example1) => valid_lines = {2}

\* an added line after a context line and a removed line of its hunk
C8_Witness ==
    /\ pc = "parse_done"
    /\ \E i \in DOMAIN adds :
           /\ IsAddedLine(lines[i]) /\ HunkOf(i) # 0
           /\ adds[i] = {NewStart(HunkOf(i)) + 1}
           /\ \E k \in (HunkOf(i) + 1)..(i - 1) : IsRemovedLine(lines[k])
           /\ \E k \in (HunkOf(i) + 1)..(i - 1) : IsPureContextLine(lines[k])

NoChangedLineInHunk ==
    ~ \E i \in DOMAIN lines :
          /\ IsAddedLine(lines[i]) \/ IsRemovedLine(lines[i])
          /\ HunkOf(i) # 0

\* C9: the result is empty whenever the patch has no + or - line after a hunk
\* header: the empty or missing patch, a patch with no hunk header, a patch
\* whose hunks hold only context lines.
C9_EmptyWithoutChangedLines ==
    (pc = "parse_done" /\ NoChangedLineInHunk) => valid_lines = {}

\* a hunk of context lines only was passed over
C9_Witness ==
    /\ pc = "parse_done"
    /\ NoChangedLineInHunk
    /\ HeaderIndices # {}
    /\ \E i \in DOMAIN lines : IsPureContextLine(lines[i]) /\ HunkOf(i) # 0
    /\ current_line > NewStart(Max(HeaderIndices))
    /\ valid_lines = {}

(***************************************************************************)
(* The filter's claims                                                     *)
(***************************************************************************)
\* the comments the loop has been through
Processed == IF ci = 0 THEN <<>> ELSE SubSeq(comments, 1, ci - 1)

Count(q, x) == Cardinality({i \in DOMAIN q : q[i] = x})

\* the comment's line is an integer (as isinstance(line, int) has it: True
\* and False are the integers 1 and 0) in the set computed, independently of
\* the filter's own table, from the patch the mapping has for the comment's
\* path
LineInPatchOfPath(c) ==
    /\ c.path # NoKey
    /\ c.path \in DOMAIN patches
    /\ c.line.type \in {"int", "bool"}
    /\ c.line.val \in parse_patch_line_numbers(patches[c.path])

\* C1: a comment is classified valid if and only if its line is an integer
\* that is a member of parse_patch_line_numbers(patches[comment.path]); with
\* the path absent from the mapping, or the line missing or not an integer,
\* it is classified invalid.
C1_ValidIffLineInPatchSet ==
    \A k \in DOMAIN Processed :
        LET c == comments[k] IN
        /\ Count(valid, c) > 0 <=> LineInPatchOfPath(c)
        /\ Count(invalid, c) > 0 <=> ~LineInPatchOfPath(c)

\* one comment went to valid; another, whose line is the float 2.0 while 2 is
\* in its file's set, went to invalid
C1_Witness ==
    /\ pc = "filter_done"
    /\ valid # <<>>
    /\ \E i \in DOMAIN invalid :
           /\ invalid[i].line = PyFloat(2)
           /\ invalid[i].path \in DOMAIN patches
           /\ 2 \in parse_patch_line_numbers(patches[invalid[i].path])

\* C3: the filter is total: len(valid) + len(invalid) == len(comments), and
\* every input comment is in exactly one of the two outputs: none dropped,
\* none duplicated, none in both.
C3_PartitionIsTotal ==
    /\ Len(valid) + Len(invalid) = Len(Processed)
    /\ pc = "filter_done" => Len(valid) + Len(invalid) = Len(comments)
    /\ \A c \in Range0(comments) \cup Range0(valid) \cup Range0(invalid) :
           /\ Count(valid, c) + Count(invalid, c) = Count(Processed, c)
           /\ ~(Count(valid, c) > 0 /\ Count(invalid, c) > 0)

\* two comments, one in each output
C3_Witness ==
    /\ pc = "filter_done"
    /\ Len(comments) >= 2
    /\ valid # <<>>
    /\ invalid # <<>>
    /\ \E i \in DOMAIN invalid : invalid[i].line = PyNoneLine

RECURSIVE IsSubseq(_, _)
IsSubseq(q, r) ==
    IF q = <<>> THEN TRUE
    ELSE IF r = <<>> THEN FALSE
    ELSE IF Head(q) = Head(r) THEN IsSubseq(Tail(q), Tail(r))
    ELSE IsSubseq(q, Tail(r))

\* C4: the filter keeps the order: valid and invalid are each a subsequence
\* of the input, the comments in their input order.
C4_OutputsAreSubsequences ==
    /\ IsSubseq(valid, comments)
    /\ IsSubseq(invalid, comments)

\* two different comments in one output
C4_Witness ==
    /\ pc = "filter_done"
    /\ \/ Len(valid) >= 2 /\ valid[1] # valid[2]
       \/ Len(invalid) >= 2 /\ invalid[1] # invalid[2]

(***************************************************************************)
(* The orchestrator's claims                                               *)
(***************************************************************************)
\* the valid-line set of the original patch of the reviewable file `path`
OriginalValidLines(path) ==
    LET i == CHOOSE i \in DOMAIN reviewable_files :
                 reviewable_files[i].filename = path
    IN  parse_patch_line_numbers(reviewable_files[i].patch)

InOriginalValidLines(path, line) ==
    /\ \E i \in DOMAIN reviewable_files : reviewable_files[i].filename = path
    /\ line.type \in {"int", "bool"}
    /\ line.val \in OriginalValidLines(path)

\* C2: every comment handed to the source-control collaborator as an inline
\* comment has a (path, line) pair in the valid-line set computed from the
\* original patch of that reviewable file, and no comment classified invalid
\* is among the inline comments.
C2_InlineCommentsAreValid ==
    /\ \A k \in DOMAIN submit_calls :
           /\ \A i \in DOMAIN submit_calls[k].comments :
                  InOriginalValidLines(submit_calls[k].comments[i].path,
                                       submit_calls[k].comments[i].line)
           /\ \A i \in DOMAIN invalid_comments :
                  Count(submit_calls[k].comments, invalid_comments[i]) = 0
    /\ \A k \in DOMAIN github_reviews :
           \A i \in DOMAIN github_reviews[k].comments :
               InOriginalValidLines(github_reviews[k].comments[i].path,
                                    github_reviews[k].comments[i].line)

\* a review was submitted with an inline comment while another comment had
\* been classified invalid
C2_Witness ==
    /\ pc = "review_done"
    /\ Len(submit_calls) = 1
    /\ submit_calls[1].comments # <<>>
    /\ submit_calls[1].invalid_comments # <<>>
    /\ Len(reviewable_files) >= 2

(***************************************************************************)
(* The review graph's claims                                               *)
(***************************************************************************)
\* C10: the single-file loop is bounded by an iteration cap of 5: even when
\* every response carries tool calls, the model is not invoked a sixth time
\* for a file.
C10_LoopStopsAtIterationCap ==
    \A f \in Range0(model_calls) : Count(model_calls, f) <= 5

\* the last message of the history, and the file under review
LastMessage == state.messages[Len(state.messages)]

CurrentFile == state.files[state.current_file_index + 1]

\* position in the files list of the file named `name`
FileIndex(name) ==
    CHOOSE k \in DOMAIN state.files : state.files[k].filename = name

\* the text has a span from a first { to a later last }
HasBraceSpan(text) ==
    \E i, j \in DOMAIN text : i < j /\ text[i] = "{" /\ text[j] = "}"

\* C11: whenever the model is invoked for a file, the history it receives
\* holds only that file's system prompt and user prompt and then the model
\* responses and tool outputs of that same file's loop; no message created
\* while another file was under review is present.
C11_HistoryHoldsOnlyOwnFile ==
    pc = "review_file" =>
        /\ Len(state.messages) >= 2
        /\ state.messages[1].type = "system"
        /\ state.messages[2].type = "human"
        /\ \A i \in DOMAIN state.messages :
               /\ state.messages[i].file = state.current_file_index
               /\ i > 2 => state.messages[i].type \in {"ai", "tool"}

\* C12: when the span from the first { to the last } of the final model
\* message fails to parse as JSON, the file contributes no comment, its
\* summary is the fixed parse-error marker, and the review goes on to the
\* next file or, after the last file, to the overall summary.
C12_ParseFailureIsNotFatal ==
    [][(/\ pc = "process_review"
        /\ HasBraceSpan(LastMessage.content.text)
        /\ LastMessage.content.json = "invalid")
       => /\ state'.file_comments = state.file_comments
          /\ state'.file_summaries =
                 Append(state.file_summaries,
                        [filename |-> CurrentFile.filename,
                         text |-> "Review completed (parse error)"])
          /\ state'.current_file_index = state.current_file_index + 1
          /\ pc' = "select_file"]_vars

\* the first file's answer did not parse, the second file was reviewed with
\* a comment and a summary, and the overall summary was generated
C12_Witness ==
    /\ pc = "END"
    /\ Len(state.files) = 2
    /\ Len(state.file_summaries) = 2
    /\ state.file_summaries[1] =
           [filename |-> "a.py", text |-> "Review completed (parse error)"]
    /\ state.file_summaries[2] = [filename |-> "b.py", text |-> "summary"]
    /\ Len(state.file_comments) = 1
    /\ state.file_comments[1].path = "b.py"
    /\ state.review_complete
    /\ state.overall_summary = "LGTM"

\* C13: when the final model message holds no { ... } span at all, or is
\* empty, extraction still gives the file a result with no comments and a
\* fallback summary: the file has an entry in the file-summary sequence.
C13_AbsentJsonStillYieldsSummary ==
    [][(/\ pc = "process_review"
        /\ ~HasBraceSpan(LastMessage.content.text))
       => /\ state'.file_comments = state.file_comments
          /\ Len(state'.file_summaries) = Len(state.file_summaries) + 1
          /\ state'.file_summaries[Len(state'.file_summaries)].filename
                 = CurrentFile.filename]_vars

\* the tool messages that answer the tool calls of the AI message at
\* position a of the history, once the tools have run
ToolsHaveRun(a) ==
    /\ state.messages[a].type = "ai"
    /\ state.messages[a].tool_calls # <<>>
    /\ a + Len(state.messages[a].tool_calls) <= Len(state.messages)

\* C14: a tool call that names no tool of the tool set yields the tool
\* result "Unknown tool: <name>", a tool whose execution raises yields
\* "Error: <message>"; either text is appended to the history as a normal
\* tool result and the model is invoked again.
C14_ToolFailuresBecomeToolResults ==
    /\ pc = "tools" => LastMessage.type = "ai"
    /\ \A a \in DOMAIN state.messages :
           ToolsHaveRun(a) =>
               \A k \in DOMAIN state.messages[a].tool_calls :
                   LET name == state.messages[a].tool_calls[k]
                       m == state.messages[a + k]
                   IN  /\ m.type = "tool"
                       /\ name \notin ToolNames
                              => m.content = "Unknown tool: " \o name
                       /\ (name \in ToolNames /\ m.content # "result")
                              => m.content = "Error: e"

\* every file's review has finished
AllFilesFinished == state.current_file_index = Len(state.files)

C20_EmptySummariesShortCircuit ==
    /\ pc # "END" => summary_calls = 0
    /\ pc = "END" =>
           IF state.file_summaries = <<>>
           THEN /\ state.overall_summary = "No files were reviewed."
                /\ summary_calls = 0
           ELSE /\ summary_calls = 1
                /\ state.overall_summary \in {"LGTM", "Needs changes"}

\* files were reviewed, none of them left a summary, and the run ended with
\* the fixed text
C20_Witness ==
    /\ pc = "END"
    /\ Len(state.files) = 2
    /\ Len(model_calls) >= 2
    /\ state.file_summaries = <<>>
    /\ state.overall_summary = "No files were reviewed."
    /\ summary_calls = 0

(***************************************************************************)
(* The scheduler's claims                                                  *)
(***************************************************************************)
\* the reviews in flight: the tasks that hold a permit
InFlight == Cardinality({i \in DOMAIN tasks : tasks[i].status = "running"})

Succeeded == {i \in DOMAIN tasks : tasks[i].status = "succeeded"}

Failed == {i \in DOMAIN tasks : tasks[i].status = "failed"}

\* C15: under every interleaving of the per-file tasks the number of reviews
\* in flight never exceeds max_concurrency: with 7 files and a
\* max_concurrency of 5, never more than 5.
C15_InFlightNeverExceedsCap ==
    /\ InFlight <= max_concurrency
    /\ InFlight <= 5

\* seven files, five reviews in flight, the other two waiting at the gate
C15_Witness ==
    /\ pc = "sched_running"
    /\ Len(tasks) = 7
    /\ InFlight = 5
    /\ permits = 0
    /\ Cardinality({i \in DOMAIN tasks : tasks[i].status = "submitted"}) = 2

\* C16: a task that fails is isolated: its failure changes no sibling task
\* and does not end the batch, and the aggregated comments and file-summary
\* lines come from exactly the tasks that succeeded.
C16_FailuresAreIsolated ==
    /\ [][\A i \in DOMAIN tasks :
             (tasks[i].status = "running" /\ tasks'[i].status = "failed")
             => /\ pc' = "sched_running"
                /\ \A j \in DOMAIN tasks \ {i} : tasks'[j] = tasks[j]]_vars
    /\ [](pc = "sched_done" =>
             /\ all_tasks_ended(tasks)
             /\ Len(sched_out.file_summaries) = Cardinality(Succeeded)
             /\ \A i \in DOMAIN tasks :
                    /\ Cardinality({k \in DOMAIN sched_out.comments :
                           sched_out.comments[k].path = SchedFileNames[i]})
                       = (IF i \in Succeeded
                          THEN Len(file_review_result(i).comments) ELSE 0)
                    /\ Cardinality({k \in DOMAIN sched_out.file_summaries :
                           sched_out.file_summaries[k].filename
                               = SchedFileNames[i]})
                       = (IF i \in Succeeded THEN 1 ELSE 0))

\* two of seven tasks failed, and the aggregation holds the results of the
\* other five
C16_Witness ==
    /\ pc = "sched_done"
    /\ Len(tasks) = 7
    /\ Failed = {2, 5}
    /\ Len(sched_out.file_summaries) = 5
    /\ sched_out.comments # <<>>

\* C17: every permit taken for a file's review is given back when the review
\* completes, fails or is terminated abnormally: no permit leaks, the free
\* permits are max_concurrency again once the batch has ended, and every
\* submitted file's review starts and finishes in the end, also with more
\* files than permits and with reviews that fail.
C17_PermitsAlwaysReleased ==
    /\ [](pc \in {"sched_running", "sched_done"} =>
             /\ permits + InFlight = max_concurrency
             /\ pc = "sched_done" => permits = max_concurrency)
    /\ <>(/\ pc = "sched_done"
          /\ all_tasks_ended(tasks)
          /\ permits = max_concurrency)

\* a batch of seven files, more than the permits, has ended with failed
\* reviews, and every permit is free
C17_Witness ==
    /\ pc = "sched_done"
    /\ Len(tasks) = 7
    /\ Cardinality(Failed) >= 2
    /\ Succeeded # {}
    /\ permits = max_concurrency

(***************************************************************************)
(* Claims about the orchestrator's early return, file cap and error        *)
(* handling                                                                *)
(***************************************************************************)
ReviewableIndices == {i \in DOMAIN pr_files : pr_files[i].patch # <<>>}

Returned == pc = "review_done" /\ result.kind = "returned"

\* C21: when no changed file of the pull request has a non-empty patch,
\* review_pull_request returns success with 0 files reviewed, 0 comments and
\* the summary "No reviewable changes found.", and neither the scheduler (and
\* so the model), nor the review submission, nor the notification is called.
C21_NothingReviewableReturnsAtOnce ==
    ReviewableIndices = {} =>
        /\ scheduler_calls = <<>>
        /\ submit_calls = <<>>
        /\ notify_calls = <<>>
        /\ Returned =>
               result = [kind |-> "returned", success |-> TRUE,
                         files_reviewed |-> 0, comments |-> 0,
                         summary |-> "No reviewable changes found."]

C21_Witness ==
    /\ Returned
    /\ pr_files # <<>>
    /\ ReviewableIndices = {}

\* the index in the listing of the j-th file that has a patch
NthReviewable(j) ==
    CHOOSE i \in ReviewableIndices :
        Cardinality({k \in ReviewableIndices : k < i}) = j - 1

ExpectedHandedOver ==
    [j \in 1..Min({Cardinality(ReviewableIndices), max_files_per_review}) |->
        pr_files[NthReviewable(j)]]

\* C22: the files handed to the scheduler are the first
\* min(k, max_files_per_review) files that have a patch, in the order of the
\* listing, k being the number of files that have a patch; and files_reviewed
\* in the outcome is the number of these files.
C22_CapKeepsFirstReviewableFiles ==
    /\ \A c \in DOMAIN scheduler_calls :
           scheduler_calls[c] = ExpectedHandedOver
    /\ Returned => result.files_reviewed = Len(ExpectedHandedOver)

C22_Witness ==
    /\ Returned
    /\ scheduler_calls # <<>>
    /\ Cardinality(ReviewableIndices) > max_files_per_review

\* the outcome computed from what the scheduler was handed and returned
SchedulerOutcome ==
    [kind |-> "returned", success |-> TRUE,
     files_reviewed |-> Len(scheduler_calls[1]),
     comments |-> Len(all_comments),
     summary |-> overall_summary]

SubmitFailed == Len(submit_calls) = 1 /\ github_reviews = <<>>

\* C23: once submit_review has been called, whether it failed or not,
\* review_pull_request ends by returning the outcome computed from the
\* scheduler's results, with success true, and has attempted the
\* notification.
C23_SubmitFailureIsNotFatal ==
    (pc = "review_done" /\ submit_calls # <<>>) =>
        /\ result = SchedulerOutcome
        /\ Len(notify_calls) = 1

C23_Witness ==
    /\ Returned
    /\ SubmitFailed
    /\ Len(notify_calls) = 1

NotifyFailed ==
    /\ Len(notify_calls) = 1
    /\ ~notify_calls[1].posted \/ notify_calls[1].dm = "failed"

\* C24: once send_review_notification has been called, whether the channel
\* post or the author's direct message failed or not, review_pull_request
\* ends by returning the outcome computed from the scheduler's results; and
\* the notification step changes neither the submission made nor the review
\* created.
C24_NotifyFailureIsNotFatal ==
    /\ [](pc = "review_done" /\ notify_calls # <<>> => result = SchedulerOutcome)
    /\ [][pc = "review_submitted" =>
              /\ github_reviews' = github_reviews
              /\ submit_calls' = submit_calls]_vars

C24_Witness ==
    /\ Returned
    /\ NotifyFailed
    /\ notify_calls[1].dm = "failed"

(***************************************************************************)
(* Claims about the repository tools                                       *)
(***************************************************************************)
ToolDone(name) == pc = "tool_done" /\ tool_call.name = name

\* the tools that make one request of the repository
SingleRequestTools ==
    {"get_file", "list_files", "search_codebase", "get_imports"}

C26_GetFileTruncatesAboveCeiling ==
    (ToolDone("get_file") /\ ~tool_call.outcome.raises) =>
        LET content == tool_call.outcome.value
        IN  /\ tool_return.kind = "returned"
            /\ Len(content) <= get_file_max_chars =>
                   tool_return.value = content
            /\ Len(content) > get_file_max_chars =>
                   /\ tool_return.value =
                          [i \in 1..(get_file_max_chars
                                     + Len(ToolTexts.truncation_marker)) |->
                              IF i <= get_file_max_chars
                              THEN content[i]
                              ELSE ToolTexts.truncation_marker[
                                       i - get_file_max_chars]]
                   /\ Len(tool_return.value) =
                          get_file_max_chars + Len(ToolTexts.truncation_marker)

C26_Witness ==
    /\ ToolDone("get_file")
    /\ ~tool_call.outcome.raises
    /\ Len(tool_call.outcome.value) = get_file_max_chars + 1

\* the extension of a path: what follows the last dot of its last
\* component, with the dot; empty without a dot
Extension(path) ==
    LET filename == SubSeq(path, rfind(path, "/") + 2, Len(path))
    IN  IF rfind(filename, ".") = -1
        THEN <<>>
        ELSE SubSeq(filename, rfind(filename, ".") + 1, Len(filename))

SupportedExtensions ==
    {ToolTexts.dot_py, ToolTexts.dot_ts, ToolTexts.dot_tsx, ToolTexts.dot_js,
     ToolTexts.dot_jsx}

UnsupportedPath == Extension(tool_call.path) \notin SupportedExtensions

\* C27 as stated: for every path whose extension is none of .py, .ts, .tsx,
\* .js and .jsx, get_imports returns the unsupported-file-type message and
\* nothing else.
C27_UnsupportedExtensionAlwaysSaysSo ==
    (ToolDone("get_imports") /\ UnsupportedPath) =>
        tool_return = returned(ToolTexts.unsupported_file_type)

\* C27, amended: for every path whose extension is none of .py, .ts, .tsx,
\* .js and .jsx, get_imports returns the unsupported-file-type message when
\* the file's content was fetched, and the text "Error extracting imports: "
\* followed by the exception's message when fetching it raised; it never
\* returns an empty text or "No imports found".
C27_UnsupportedExtensionSaysSoOnceFetched ==
    (ToolDone("get_imports") /\ UnsupportedPath) =>
        /\ ~tool_call.outcome.raises =>
               tool_return = returned(ToolTexts.unsupported_file_type)
        /\ tool_call.outcome.raises =>
               tool_return = returned(ToolTexts.error_extracting_imports
                                      \o tool_call.outcome.value)
        /\ tool_return.value # <<>>
        /\ tool_return.value # ToolTexts.no_imports_found

C27_Witness ==
    /\ ToolDone("get_imports")
    /\ UnsupportedPath
    /\ ~tool_call.outcome.raises
    /\ tool_call.outcome.value # <<>>
    /\ Extension(tool_call.path) # <<>>

\* the paths the text returned by find_related_files lists
ListedPaths ==
    LET shown == split(tool_return.value)
    IN  IF startswith(tool_return.value, ToolTexts.related_files_found)
        THEN [i \in 1..(Len(shown) - 1) |->
                 SubSeq(shown[i + 1], 3, Len(shown[i + 1]))]
        ELSE <<>>

\* the searches that raised, and the paths among the first three
\* results of the other searches
FailedQueries == {q \in DOMAIN tool_call.search : tool_call.search[q].raises}

FoundPaths ==
    UNION {{tool_call.search[q].value[i].path :
               i \in 1..Min({3, Len(tool_call.search[q].value)})} :
           q \in DOMAIN tool_call.search \ FailedQueries}

\* C28: find_related_files returns a text that lists no path twice and
\* lists exactly the paths among the first three results of the searches
\* that did not raise; when every search raised it returns "No related
\* files found".
C28_RelatedFilesDedupAndSwallow ==
    ToolDone("find_related_files") =>
        /\ tool_return.kind = "returned"
        /\ \A i, j \in DOMAIN ListedPaths :
               i # j => ListedPaths[i] # ListedPaths[j]
        /\ Range0(ListedPaths) = FoundPaths
        /\ FailedQueries = DOMAIN tool_call.search =>
               tool_return.value = ToolTexts.no_related_files_found

C28_Witness ==
    /\ ToolDone("find_related_files")
    /\ FailedQueries # {}
    /\ Len(ListedPaths) = 3
    /\ \E q1, q2 \in DOMAIN tool_call.search \ FailedQueries :
           /\ q1 # q2
           /\ tool_call.search[q1] = tool_call.search[q2]
           /\ tool_call.search[q1].value # <<>>

(***************************************************************************)
(* Claims about parse_pr_reference                                         *)
(***************************************************************************)
RefDone == pc = "ref_done"

PartsOf(forms) == {i \in DOMAIN ref_message : ref_message[i].form \in forms}

FirstPart(forms) == ref_message[Min(PartsOf(forms))]

ReferenceOf(part) == PRReference(part.owner, part.repo, part.number)

DefaultsConfigured ==
    /\ ref_settings.default_repo_owner \notin {PyNone, <<>>}
    /\ ref_settings.default_repo_name \notin {PyNone, <<>>}

\* C29: when the text holds a pull-request URL, parse_pr_reference returns
\* the owner, repository and number of the first one, and otherwise, when it
\* holds an owner/repo#N reference, those of the first one; whatever the
\* defaults are, and whether an URL comes before or after an owner/repo#N
\* reference.
C29_ExplicitReferenceWinsUrlFirst ==
    RefDone =>
        /\ PartsOf({"url"}) # {} =>
               pr_reference = ReferenceOf(FirstPart({"url"}))
        /\ (PartsOf({"url"}) = {} /\ PartsOf({"full_ref"}) # {}) =>
               pr_reference = ReferenceOf(FirstPart({"full_ref"}))

C29_Witness ==
    /\ RefDone
    /\ PartsOf({"url"}) # {}
    /\ PartsOf({"full_ref"}) # {}
    /\ Min(PartsOf({"full_ref"})) < Min(PartsOf({"url"}))
    /\ ~DefaultsConfigured

ExplicitForms == {"url", "full_ref"}

\* what the shorthand forms of `forms` refer to under the defaults
ShorthandOutcome(forms) ==
    IF DefaultsConfigured
    THEN /\ pr_reference.kind = "PRReference"
         /\ pr_reference.owner = ref_settings.default_repo_owner
         /\ pr_reference.repo = ref_settings.default_repo_name
         /\ pr_reference.pr_number \in
                {ref_message[i].number : i \in PartsOf(forms)}
    ELSE pr_reference = NoReference

\* C30 as stated: for a text whose only references are shorthand forms
\* ("#N" wherever it stands, "review N", "PR N"), parse_pr_reference
\* returns the reference made of the two defaults and N when both defaults
\* are configured and None when one is missing.
C30_AnyShorthandUsesDefaults ==
    (/\ RefDone
     /\ PartsOf(ExplicitForms) = {}
     /\ PartsOf({"short", "short_punctuated", "number"}) # {}) =>
        ShorthandOutcome({"short", "short_punctuated", "number"})

\* C30, amended: for a text whose only references are shorthand forms ("#N"
\* standing between white space or the ends of the text, "review N",
\* "PR N", "pull request N"), parse_pr_reference returns the reference made
\* of the two defaults and N when both defaults are configured and None when
\* one is missing; for a text with no such form and no explicit reference,
\* the empty text included, it returns None.
C30_DelimitedShorthandUsesDefaults ==
    (RefDone /\ PartsOf(ExplicitForms) = {}) =>
        IF PartsOf({"short", "number"}) # {}
        THEN ShorthandOutcome({"short", "number"})
        ELSE pr_reference = NoReference

C30_Witness ==
    /\ RefDone
    /\ PartsOf(ExplicitForms) = {}
    /\ PartsOf({"number"}) # {}
    /\ PartsOf({"short"}) = {}
    /\ DefaultsConfigured
    /\ pr_reference.kind = "PRReference"

(***************************************************************************)
(* Further claims about the parser                                         *)
(***************************************************************************)
\* line i is a removed line processed with the counter above 0
RemovedInHunk(i) ==
    /\ IsRemovedLine(lines[i])
    /\ HunkOf(i) # 0
    /\ NewStart(HunkOf(i)) >= 1

\* the first added or context line after line i in the hunk of line i, 0
\* when the hunk has none
NextNumberedLine(i) ==
    LET after == {m \in (i + 1)..Len(lines) :
                     /\ HunkOf(m) = HunkOf(i)
                     /\ IsAddedLine(lines[m]) \/ IsContextLine(lines[m])}
    IN  IF after = {} THEN 0 ELSE Min(after)

\* C33: a removed line processed inside a hunk records the current new-file
\* line number and leaves the counter where it is; the removed lines of a
\* run record one number between them, and it is the number of the next
\* added or context line of the hunk.
C33_RemovedLineRecordsNextNumber ==
    \A i \in DOMAIN adds :
        RemovedInHunk(i) =>
            /\ adds[i] = {NewFileNo(i)}
            /\ i = Len(adds) => current_line = NewFileNo(i)
            /\ \A j \in DOMAIN adds :
                   (/\ i < j
                    /\ \A k \in i..j : IsRemovedLine(lines[k]))
                   => adds[j] = adds[i]
            /\ NextNumberedLine(i) # 0 =>
                   /\ adds[i] = {NewFileNo(NextNumberedLine(i))}
                   /\ (/\ NextNumberedLine(i) \in DOMAIN adds
                       /\ IsAddedLine(lines[NextNumberedLine(i)]))
                      => adds[NextNumberedLine(i)] = adds[i]

\* a run of two removed lines followed by an added line: the three recorded
\* one number
C33_Witness ==
    /\ pc = "parse_done"
    /\ \E i \in DOMAIN adds :
           /\ i + 2 \in DOMAIN adds
           /\ RemovedInHunk(i) /\ RemovedInHunk(i + 1)
           /\ IsAddedLine(lines[i + 2])
           /\ valid_lines = {NewFileNo(i)}

\* every hunk header of the patch has new-start 0, and there is one
ZeroStartOnly ==
    /\ HeaderIndices # {}
    /\ \A j \in HeaderIndices : NewStart(j) = 0

\* the comments a file can be given: every kind of line value, 0 and False
\* among them
CommentsOnFile ==
    [path : {"a.py"},
     line : LineValues \cup {PyInt(0), PyInt(1), PyBool(0)},
     message : {"m"}]

\* C40: no number below 1 is ever recorded; a line processed while the
\* counter is 0 records nothing and leaves the counter at 0, so a patch
\* whose hunk headers all have new-start 0 yields the empty set, removed
\* lines or not, and the filter classifies every comment on a file with
\* such a patch as invalid.
C40_NoLineNumberBelowOne ==
    /\ \A n \in valid_lines : n >= 1
    /\ \A i \in DOMAIN adds :
           (~IsHunkHeader(lines[i])
            /\ (HunkOf(i) = 0 \/ NewStart(HunkOf(i)) = 0))
           => /\ adds[i] = {}
              /\ i = Len(adds) => current_line = 0
    /\ (pc = "parse_done" /\ lines # <<>> /\ ZeroStartOnly) =>
           /\ valid_lines = {}
           /\ \A c \in CommentsOnFile :
                  LET out == filter_comments_by_valid_lines(
                                 <<c>>, [f \in {"a.py"} |-> patch])
                  IN  out.valid = <<>> /\ out.invalid = <<c>>

\* the patch of a deleted file: a +0,0 hunk of removed lines
C40_Witness ==
    /\ pc = "parse_done"
    /\ lines # <<>>
    /\ ZeroStartOnly
    /\ \E i \in DOMAIN adds : IsRemovedLine(lines[i]) /\ HunkOf(i) # 0
    /\ \A i \in DOMAIN adds : adds[i] = {}

(***************************************************************************)
(* Further claims about the review graph                                   *)
(***************************************************************************)
\* the message the step being taken appends last
NewLastMessage == state'.messages[Len(state'.messages)]

\* the history ends with a response that asks for tools and one tool
\* message for each of its calls
EndsWithAnsweredToolCalls ==
    \E a \in DOMAIN state.messages :
        LET calls == state.messages[a].tool_calls IN
        /\ state.messages[a].type = "ai"
        /\ calls # <<>>
        /\ Len(state.messages) = a + Len(calls)
        /\ \A i \in DOMAIN calls : state.messages[a + i].type = "tool"

\* C34: a model response with tool calls leads to the tools step, which
\* appends one tool message for every call, in the calls' order, and only
\* then is the model invoked again; a response without tool calls ends the
\* loop and leads to extraction on that response, with the done marker or
\* without. Extraction is never reached with a tool-call response as the
\* last message, and the model is never invoked on a history that ends with
\* a tool-call response.
C34_ToolsBeforeNextModelCall ==
    /\ [](/\ pc = "process_review" =>
                 /\ LastMessage.type = "ai"
                 /\ LastMessage.tool_calls = <<>>
          /\ pc = "tools" =>
                 /\ LastMessage.type = "ai"
                 /\ LastMessage.tool_calls # <<>>
          /\ pc = "review_file" =>
                 \/ LastMessage.type = "human"
                 \/ LastMessage.type = "tool" /\ EndsWithAnsweredToolCalls)
    /\ [][/\ pc = "review_file" =>
                 /\ NewLastMessage.type = "ai"
                 /\ Len(state'.messages) = Len(state.messages) + 1
                 /\ Len(model_calls') = Len(model_calls) + 1
                 /\ pc' = IF NewLastMessage.tool_calls # <<>>
                          THEN "tools"
                          ELSE "process_review"
          /\ pc = "tools" =>
                 /\ pc' = "review_file"
                 /\ model_calls' = model_calls
                 /\ state'.messages =
                        state.messages
                        \o [i \in DOMAIN LastMessage.tool_calls |->
                               state'.messages[Len(state.messages) + i]]
                 /\ \A i \in DOMAIN LastMessage.tool_calls :
                        state'.messages[Len(state.messages) + i].type = "tool"
          /\ pc = "process_review" =>
                 /\ model_calls' = model_calls
                 /\ pc' = "select_file"
                 /\ state'.current_file_index
                        = state.current_file_index + 1]_vars

\* extraction is about to run on a response without braces, let alone the
\* done marker, that came after a response with two tool calls and the two
\* tool messages that answer them
C34_Witness ==
    /\ pc = "process_review"
    /\ Len(state.messages) = 6
    /\ state.messages[3].type = "ai"
    /\ Len(state.messages[3].tool_calls) = 2
    /\ state.messages[4].type = "tool"
    /\ state.messages[5].type = "tool"
    /\ state.messages[6].type = "ai"
    /\ state.messages[6].content = NoJsonContent

\* a file's loop has not ended within the model calls a run is given
LoopNotEnded == pc = "review_file" /\ Len(model_calls) >= MaxModelCalls

C35_ExtractionNeverRaises ==
    [][pc = "process_review" =>
           /\ pc' = "select_file"
           /\ state'.current_file_index = state.current_file_index + 1]_vars

(***************************************************************************)
(* Further claims about review_pull_request                                *)
(***************************************************************************)
\* the review submit_review is to create from the arguments of call k
ExpectedReview(k) ==
    [body |-> submit_calls[k].body, event |-> "COMMENT",
     comments |-> review_comments_of(submit_calls[k].comments)]

\* C39: a call of submit_review for which fetching the pull request and
\* creating the review both succeed returns normally and has created
\* exactly one review, with the overall summary as body and the valid
\* comments as inline comments; a call of submit_review raises only when
\* one of the two collaborator calls fails.
C39_SubmitCreatesOneReview ==
    \A k \in DOMAIN submit_returns :
        /\ (submit_returns[k].fetch_ok /\ submit_returns[k].create_ok) =>
               /\ submit_returns[k].raised = NoException
               /\ github_reviews = <<ExpectedReview(k)>>
               /\ submit_calls[k].body = overall_summary
               /\ submit_calls[k].comments = valid_comments
        /\ submit_returns[k].raised # NoException =>
               ~submit_returns[k].fetch_ok \/ ~submit_returns[k].create_ok

(***************************************************************************)
(* Claims about extract_review_intent                                      *)
(***************************************************************************)
\* the message holds a keyword: a word with a one-word keyword in it, or
\* a word ending with "look" followed by a word starting with "at"
MessageHoldsKeyword ==
    \/ \E i \in DOMAIN event_message : event_message[i].keyword
    \/ \E i \in 1..(Len(event_message) - 1) :
           event_message[i].look /\ event_message[i + 1].at

\* C31: extract_review_intent returns True if and only if the text,
\* compared without regard to case, contains one of the keywords review,
\* check, look at, examine, analyze, inspect; for the empty string it
\* returns False.
C31_IntentIffKeyword ==
    pc = "intent_done" =>
        /\ review_intent.kind = "returned"
        /\ review_intent.value = MessageHoldsKeyword
        /\ event_text = <<>> => review_intent.value = FALSE

\* a keyword written in capitals, and the two-word keyword across two
\* words, were found
C31_Witness ==
    /\ pc = "intent_done"
    /\ review_intent.value = TRUE
    /\ \A i \in DOMAIN event_message : ~event_message[i].keyword
    /\ \E i \in 1..(Len(event_message) - 1) :
           /\ event_message[i].look /\ event_message[i + 1].at
           /\ event_message[i].text # str_lower(event_message[i].text)

(***************************************************************************)
(* Claims about the GitHub webhook                                         *)
(***************************************************************************)
\* the delivery carries GitHub's signature of its body under the configured
\* secret, or no secret is configured
SignatureVerifies ==
    \/ secrets.github_webhook_secret \in {PyNone, <<>>}
    \/ request.signature =
           <<"sha256=", hexdigest(secrets.github_webhook_secret,
                                  request.body)>>

ReviewedAction ==
    /\ request.body.json
    /\ "action" \in DOMAIN request.body.payload
    /\ request.body.payload.action \in {<<"o", "p", "e", "n", "e", "d">>,
                                         <<"s", "y", "n", "c", "h", "r",
                                           "o", "n", "i", "z", "e">>}

IsPullRequestEvent == request.event = <<"p", "u", "l", "l", "_", "r", "e",
                                        "q", "u", "e", "s", "t">>

\* the review of the pull request the payload names
NamedReview ==
    LET payload == request.body.payload
    IN  [owner |-> IF "repository" \in DOMAIN payload
                   THEN payload.repository.owner.login ELSE PyNone,
         repo |-> IF "repository" \in DOMAIN payload
                  THEN payload.repository.name ELSE PyNone,
         pr_number |-> IF "pull_request" \in DOMAIN payload
                       THEN payload.pull_request.number ELSE PyNone]

\* C37: a delivery to the GitHub webhook schedules a background review if
\* and only if its signature verifies (or no secret is configured), its
\* event is pull_request and its action is opened or synchronize; it then
\* schedules exactly one review, of the pull request its payload names; a
\* delivery whose signature does not verify is answered with 401; every
\* other delivery schedules no review.
C37_WebhookSchedulesOneReview ==
    pc = "webhook_responded" =>
        /\ background_tasks # <<>> <=>
               (SignatureVerifies /\ IsPullRequestEvent /\ ReviewedAction)
        /\ background_tasks # <<>> => background_tasks = <<NamedReview>>
        /\ ~SignatureVerifies => http_response.status = 401
        /\ \A k \in DOMAIN review_runs :
               review_runs[k].task = background_tasks[k]

\* a signed delivery of a synchronize event was answered, and the one
\* review it scheduled has run
C37_Witness ==
    /\ pc = "webhook_responded"
    /\ secrets.github_webhook_secret \notin {PyNone, <<>>}
    /\ SignatureVerifies /\ IsPullRequestEvent
    /\ request.body.json
    /\ "action" \in DOMAIN request.body.payload
    /\ request.body.payload.action = <<"s", "y", "n", "c", "h", "r", "o",
                                       "n", "i", "z", "e">>
    /\ http_response = Response(200, "Review started")
    /\ background_tasks = <<[owner |-> "o", repo |-> "r.js", pr_number |-> 7]>>
    /\ Len(review_runs) = 1

(***************************************************************************)
(* Claims about the Slack events endpoint                                  *)
(***************************************************************************)
SigningSecretConfigured == secrets.slack_signing_secret \notin {PyNone, <<>>}

\* the timestamp header is missing or empty, or is not a number
NoNumberTimestamp ==
    \/ request.timestamp = <<>>
    \/ \E k \in DOMAIN request.timestamp :
           request.timestamp[k] \notin Digit \cup {" ", "-"}

\* the timestamp is a number more than 300 seconds from the current time
StaleTimestamp ==
    /\ ~NoNumberTimestamp
    /\ LET t == strip(request.timestamp)
           n == IF t[1] = "-" THEN 0 - int(Tail(t)) ELSE int(t)
       IN  n < request.received_at - 300 \/ n > request.received_at + 300

\* C32: with a signing secret configured, the verification of a Slack
\* request never raises: when the timestamp header is missing, empty or
\* not a number, or is more than 300 seconds from the current time, the
\* request to /slack/events is answered with 401 and no review and no
\* reply is scheduled.
C32_BadTimestampIsRejected ==
    (pc = "slack_responded" /\ SigningSecretConfigured) =>
        /\ http_response.status # 500
        /\ (NoNumberTimestamp \/ StaleTimestamp) =>
               /\ http_response = Response(401, "Invalid signature")
               /\ background_tasks = <<>>

(***************************************************************************)
(* Claims about a review requested on Slack                                *)
(***************************************************************************)
\* the calls made, without what their Slack calls raised
CallsMade == [i \in DOMAIN slack_calls |->
                 <<slack_calls[i].call, slack_calls[i].arg>>]

\* the calls of a request whose review ended with `outcome`, answered
\* with the reaction `emoji` and the reply `reply`
CallsOfReview(outcome, emoji, reply) ==
    <<<<"add_reaction", "runner">>,
      <<"review_pull_request", "started">>,
      <<"review_pull_request", outcome>>,
      <<"remove_reaction", "runner">>,
      <<"add_reaction", emoji>>,
      <<"send_thread_reply", reply>>>>

\* C38: a review request without a pull-request reference gets one error
\* reply and no reaction and no review; otherwise the runner reaction is
\* added before the review starts, and when the review has ended the
\* runner reaction is removed, white_check_mark is added if the review
\* returned and x if it raised, never both, and one thread reply follows.
\* A reaction or reply call that fails never ends the handler early.
C38_ReviewRequestProtocol ==
    /\ pc # "handler_raised"
    /\ pc = "handler_done" =>
           IF pr_reference.kind = "None"
           THEN CallsMade = <<<<"send_thread_reply", "no_reference">>>>
           ELSE CallsMade \in
                    {CallsOfReview("returned", "white_check_mark",
                                   "reviewed"),
                     CallsOfReview("raised", "x", "review_failed")}
    /\ pc \in {"handler_reviewing", "handler_try", "handler_except"} =>
           /\ pr_reference.kind = "PRReference"
           /\ CallsMade[1] = <<"add_reaction", "runner">>
           /\ CallsMade[2] = <<"review_pull_request", "started">>

\* the handler of a request with a reference is done, the review raised,
\* and every reaction and reply call failed
C38_Witness ==
    /\ pc = "handler_done"
    /\ pr_reference.kind = "PRReference"
    /\ CallsMade = CallsOfReview("raised", "x", "review_failed")
    /\ \A i \in DOMAIN slack_calls :
           slack_calls[i].call # "review_pull_request" =>
               slack_calls[i].raised # NoException

====
